---- MODULE Spec2Model ----
(***************************************************************************)
(* Model of the review bot's GitHub-facing engine (github.ts, worker.ts):  *)
(* the marker-keyed comment ledger, the head-scoped inline review, the     *)
(* multi-file branch commit and the SQS worker that drives them.  Every    *)
(* await of a GitHub REST call is one step of a worker, so that the steps  *)
(* of two Lambda invocations and the pushes of the pull request's author   *)
(* interleave as they do against the real API.                             *)
(***************************************************************************)
EXTENDS Integers, Sequences, FiniteSets, TLC

\* ------------------------------------------------------------------ bounds

\* Direct calls of an exported operation that a run may start.
MaxCalls == 2

\* Pushes to the branch by writers other than the bot.
MaxPushes == 1

\* Lines of a patch handed to the diff parsers.
MaxPatchLen == 3

\* Suggestions in the list handed to createInlineReview.
MaxSuggestions == 2

\* Right-side lines in the list handed to findClosestReviewLine.
MaxRightLines == 3

\* Segments of a suggestion's path, and changed files, handed to
\* resolvePathForInlineComment.
MaxPathSegs == 2
MaxFiles == 2

\* Characters of a file content handed to a commit.
MaxContentLen == 4

\* Records one process handles while its installation clients are cached.
MaxJobs == 3

\* Records in one SQS event.
MaxRecords == 2

\* Things the pull request's author does: pushes, and openings or edits of
\* the pull request.
MaxUserEvents == 2

\* ------------------------------------------------------- program constants

TEMPLATE_COMMENT_MARKER == "<!-- ct-assistant:template-check -->"
REVIEW_COMMENT_MARKER == "<!-- ct-assistant:ai-review -->"
LINE_REVIEW_MARKER == "<!-- ct-assistant:inline-review -->"
FILE_REVIEW_MARKER == "<!-- ct-assistant:file-review -->"

\* issues.listComments is called once, with per_page: 100, and never paged.
PerPage == 100

\* ------------------------------------------------------------------ values

Workers == {"w1", "w2"}

\* Markers under which the ledger is exercised by direct calls.
Markers == {TEMPLATE_COMMENT_MARKER, REVIEW_COMMENT_MARKER}

\* bodyWithoutMarker arguments.
Bodies == {"b1", "b2"}

\* Markers a body text quotes somewhere after its first line.
Mentions(text) ==
  IF text = "quotes-template" THEN {TEMPLATE_COMMENT_MARKER} ELSE {}

\* Repository paths and blob contents; "" is an empty file.
Paths == {"README.md", "Main.java", "Problem.java"}
Contents == {"", "x", "y"}
Absent == "<absent>"
Null == "<null>"

VARIABLES
  pool,       \* the worker processes that run (Lambda concurrency)
  comments,   \* issue comments of the pull request, in ascending id order
  nextId,     \* id the next created comment gets
  reviews,    \* reviews of the pull request, in creation order
  commits,    \* git commit objects; a commit's sha is its index
  branch,     \* refs/heads/<head.ref>: the sha the branch points at
  pushed,     \* shas another writer has put the branch on, in order
  pullBody,   \* the pull request's description: "complete" or "incomplete"
  pc,         \* per worker: the await it is suspended at
  ret,        \* per worker: where the running operation returns to
  onThrow,    \* per worker: where an exception of the operation lands
  loc,        \* per worker: parameters and locals of the running operation
  job,        \* per worker: the SQS record being handled
  log,        \* operations that have returned or thrown, in order
  started,    \* number of operations started so far
  failures,   \* batchItemFailures reported by the handler
  octokitCache, \* the process's installation clients, by installation id
  ai,         \* the AI provider's generateReview call in progress
  events,     \* webhook deliveries GitHub has sent and the app has not handled
  queue,      \* worker jobs in the SQS queue, in order
  input,      \* arguments of the function under evaluation
  output      \* what the function returned for them

vars ==
  <<pool, comments, nextId, reviews, commits, branch, pushed, pullBody, pc,
    ret, onThrow, loc, job, log, started, failures, octokitCache, ai, events,
    queue, input, output>>

\* ----------------------------------------------------------------- helpers

Min(a, b) == IF a < b THEN a ELSE b

Range(s) == {s[i] : i \in 1..Len(s)}

\* The smallest member of a set of array indexes, 0 when it is empty.
FirstIndex(hits) ==
  IF hits = {} THEN 0 ELSE CHOOSE i \in hits : \A j \in hits : i <= j

\* The sequence without its elements of the given id.
WithoutId(s, id) == SelectSeq(s, LAMBDA c : c.id # id)

EmptyTree == [p \in Paths |-> Absent]

NoLocals ==
  [ marker |-> "", body |-> "", existing |-> 0,
    plan |-> <<>>, unchanged |-> <<>>, base |-> 0, tree |-> EmptyTree,
    newCommit |-> 0, head |-> 0, suggestions |-> <<>>, files |-> <<>>,
    valid |-> <<>>, writes |-> <<>>, seenTips |-> {},
    rejectedReads |-> FALSE, bodyLines |-> <<>>, before |-> 0 ]

\* The installations the app serves.
Installations == {1, 2, 3}

\* No function is under evaluation.
NoValue == [fn |-> "none"]

\* No generateReview call is in progress.
NoCall == [pc |-> "idle"]

NoJob ==
  [ type |-> "", messageId |-> 0, body |-> "", suggestions |-> <<>>,
    files |-> <<>>, commitsMade |-> 0, refRejected |-> FALSE,
    aiReview |-> "none" ]

\* An operation returns: control goes back to the caller's continuation.
Return(w, op, result) ==
  /\ log' = Append(log, [op |-> op, w |-> w, args |-> loc[w], result |-> result])
  /\ pc' = [pc EXCEPT ![w] = ret[w]]
  /\ ret' = [ret EXCEPT ![w] = "idle"]
  /\ onThrow' = [onThrow EXCEPT ![w] = IF ret[w] = "idle" THEN "idle" ELSE @]

\* An operation throws (a rejected REST call): control goes to the handler
\* of the enclosing try, or out of the direct call.
Throw(w, op) ==
  /\ log' = Append(log, [op |-> op, w |-> w, args |-> loc[w], result |-> "threw"])
  /\ pc' = [pc EXCEPT ![w] = onThrow[w]]
  /\ ret' = [ret EXCEPT ![w] = "idle"]
  /\ onThrow' = [onThrow EXCEPT ![w] = "idle"]

\* ----------------------------------------------------------- CommentLedger

Body(marker, bodyWithoutMarker) == [first |-> marker, rest |-> bodyWithoutMarker]

\* comment.body?.includes(marker)
Includes(body, marker) == body.first = marker \/ marker \in Mentions(body.rest)

\* octokit.rest.issues.listComments({ per_page: 100 }): the first page only.
listComments == SubSeq(comments, 1, Min(Len(comments), PerPage))

\* (comment) => comment.body?.includes(marker) && comment.user?.type === "Bot"
IsManagedComment(comment, marker) == Includes(comment.body, marker) /\ comment.bot

\* comments.data.find(...): the id of the first match of the listing, 0 if none.
FindExisting(listing, marker) ==
  LET i == FirstIndex({k \in 1..Len(listing) : IsManagedComment(listing[k], marker)})
  IN  IF i = 0 THEN 0 ELSE listing[i].id

HasComment(id) == \E i \in 1..Len(comments) : comments[i].id = id

\* upsertIssueComment, await listComments
upsertIssueComment_list(w) ==
  /\ pc[w] = "upsert_list"
  /\ LET existing == FindExisting(listComments, loc[w].marker)
     IN  /\ loc' = [loc EXCEPT ![w].existing = existing]
         /\ pc' = [pc EXCEPT ![w] =
                     IF existing # 0 THEN "upsert_update" ELSE "upsert_create"]
  /\ UNCHANGED <<events, queue, octokitCache, ai, input, output, pool, pullBody, comments, nextId, reviews, commits, branch, pushed, ret,
                 onThrow, job, log, started, failures>>

\* upsertIssueComment, await updateComment (404 when the comment is gone)
upsertIssueComment_update(w) ==
  /\ pc[w] = "upsert_update"
  /\ IF HasComment(loc[w].existing)
     THEN /\ comments' =
               [i \in 1..Len(comments) |->
                  IF comments[i].id = loc[w].existing
                  THEN [comments[i] EXCEPT !.body = Body(loc[w].marker, loc[w].body)]
                  ELSE comments[i]]
          /\ Return(w, "upsertIssueComment", "updated")
     ELSE /\ UNCHANGED comments
          /\ Throw(w, "upsertIssueComment")
  /\ UNCHANGED <<events, queue, octokitCache, ai, input, output, pool, pullBody, nextId, reviews, commits, branch, pushed, loc, job,
                 started, failures>>

\* upsertIssueComment, await createComment
upsertIssueComment_create(w) ==
  /\ pc[w] = "upsert_create"
  /\ comments' = Append(comments,
                   [id |-> nextId, bot |-> TRUE,
                    body |-> Body(loc[w].marker, loc[w].body)])
  /\ nextId' = nextId + 1
  /\ Return(w, "upsertIssueComment", "created")
  /\ UNCHANGED <<events, queue, octokitCache, ai, input, output, pool, pullBody, reviews, commits, branch, pushed, loc, job, started,
                 failures>>

\* removeTemplateCheckComment, await listComments
removeTemplateCheckComment_list(w) ==
  /\ pc[w] = "remove_list"
  /\ LET matched == FindExisting(listComments, TEMPLATE_COMMENT_MARKER)
     IN  IF matched = 0
         THEN /\ Return(w, "removeTemplateCheckComment", "none")
              /\ UNCHANGED loc
         ELSE /\ loc' = [loc EXCEPT ![w].existing = matched]
              /\ pc' = [pc EXCEPT ![w] = "remove_delete"]
              /\ UNCHANGED <<ret, onThrow, log>>
  /\ UNCHANGED <<events, queue, octokitCache, ai, input, output, pool, pullBody, comments, nextId, reviews, commits, branch, pushed, job,
                 started, failures>>

\* removeTemplateCheckComment, await deleteComment (404 when already gone)
removeTemplateCheckComment_delete(w) ==
  /\ pc[w] = "remove_delete"
  /\ IF HasComment(loc[w].existing)
     THEN /\ comments' = WithoutId(comments, loc[w].existing)
          /\ Return(w, "removeTemplateCheckComment", "deleted")
     ELSE /\ UNCHANGED comments
          /\ Throw(w, "removeTemplateCheckComment")
  /\ UNCHANGED <<events, queue, octokitCache, ai, input, output, pool, pullBody, nextId, reviews, commits, branch, pushed, loc, job,
                 started, failures>>

\* Positions of the bot-authored comments whose first line is the marker.
BotComments(marker) ==
  {i \in 1..Len(comments) : comments[i].bot /\ comments[i].body.first = marker}

\* A caller invokes upsertIssueComment(octokit, owner, repo, issue, marker, body);
\* before notes how many comments carry the marker when it is called.
CallUpsert(w, marker, body, cont, handler) ==
  /\ loc' = [loc EXCEPT ![w] =
               [NoLocals EXCEPT !.marker = marker, !.body = body,
                                !.before = Cardinality(BotComments(marker))]]
  /\ pc' = [pc EXCEPT ![w] = "upsert_list"]
  /\ ret' = [ret EXCEPT ![w] = cont]
  /\ onThrow' = [onThrow EXCEPT ![w] = handler]

\* Serial runs have one worker; a direct call starts when it is idle.
CanStart(w) == w \in pool /\ pc[w] = "idle" /\ started < MaxCalls

\* Direct call: upsertIssueComment(marker, body)
StartUpsert(w) ==
  /\ CanStart(w)
  /\ \E marker \in Markers, body \in Bodies : CallUpsert(w, marker, body, "idle", "idle")
  /\ started' = started + 1
  /\ UNCHANGED <<events, queue, octokitCache, ai, input, output, pool, pullBody, comments, nextId, reviews, commits, branch, pushed, job,
                 log, failures>>

\* Direct call: removeTemplateCheckComment(context)
StartRemove(w) ==
  /\ CanStart(w)
  /\ loc' = [loc EXCEPT ![w] = NoLocals]
  /\ pc' = [pc EXCEPT ![w] = "remove_list"]
  /\ started' = started + 1
  /\ UNCHANGED <<events, queue, octokitCache, ai, input, output, pool, pullBody, comments, nextId, reviews, commits, branch, pushed, ret,
                 onThrow, job, log, failures>>

\* Comments already on the pull request: n by its author, the first of which
\* quotes the template notice.
Backlog(n) ==
  [i \in 1..n |->
     [id |-> i, bot |-> FALSE,
      body |-> Body("", IF i = 1 THEN "quotes-template" ELSE "human")]]

\* A patch is the sequence of its lines; a line is known by how it starts:
\* "@@" with the start c of its "+c,d" ("@@bad" when the header has none),
\* "+", "+++", "-", "---", " " (context), "\\" (no newline at end of file)
\* and "" (an empty line).
HunkHeader(c) == [kind |-> "@@", start |-> c]
PatchLine(kind) == [kind |-> kind, start |-> 0]

\* A path is its segments between slashes, after what normalizePathForMatch
\* strips from its front ("./", "/").
Path(lead, segs) == [lead |-> lead, segs |-> segs]

\* The spec's scenario: @@ -1,3 +1,4 @@ / line1 / +line2 / line3 / line4
MainJava == Path("", <<"src", "Main.java">>)
MainPatch ==
  <<HunkHeader(1), PatchLine(" "), PatchLine("+"), PatchLine(" "), PatchLine(" ")>>
ChangedFiles == <<[path |-> MainJava, patch |-> MainPatch]>>

\* The diff after the author's next push: @@ -1,1 +1,2 @@ / line1 / +line2
PushedPatch == <<HunkHeader(1), PatchLine(" "), PatchLine("+")>>
PushedFiles == <<[path |-> MainJava, patch |-> PushedPatch]>>

\* The repository before the bot acts: the base commit and, on top of it, the
\* author's commit with the solution file.  A commit carries the files of the
\* pull request's diff at it, as pulls.listFiles gives them.
CommitsWith(files) ==
  << [parent |-> 0, tree |-> EmptyTree, bot |-> FALSE, files |-> <<>>],
     [parent |-> 1, tree |-> [EmptyTree EXCEPT !["Main.java"] = "x"],
      bot |-> FALSE, files |-> files] >>

InitialCommits == CommitsWith(ChangedFiles)

InitProcess ==
  /\ octokitCache = [installationId \in Installations |-> "none"]
  /\ ai = NoCall
  /\ events = <<>>
  /\ queue = <<>>
  /\ branch = Len(InitialCommits)
  /\ pushed = <<>>
  /\ pc = [w \in Workers |-> "idle"]
  /\ ret = [w \in Workers |-> "idle"]
  /\ onThrow = [w \in Workers |-> "idle"]
  /\ loc = [w \in Workers |-> NoLocals]
  /\ job = [w \in Workers |-> NoJob]
  /\ log = <<>>
  /\ started = 0
  /\ failures = {}

InitWorkers == commits = InitialCommits /\ InitProcess

InitRest == input = NoValue /\ output = NoValue /\ InitWorkers

InitCommon == reviews = <<>> /\ pullBody = "complete" /\ InitRest

InitComments(n) ==
  /\ comments = Backlog(n)
  /\ nextId = n + 1

NextLedger ==
  \E w \in Workers :
    \/ StartUpsert(w)
    \/ StartRemove(w)
    \/ upsertIssueComment_list(w)
    \/ upsertIssueComment_update(w)
    \/ upsertIssueComment_create(w)
    \/ removeTemplateCheckComment_list(w)
    \/ removeTemplateCheckComment_delete(w)

\* One worker calls the ledger, on a pull request with few or many comments.
InitLedgerSerial ==
  /\ pool = {"w1"}
  /\ \E n \in {0, 1, PerPage - 1, PerPage} : InitComments(n)
  /\ InitCommon

SpecLedgerSerial == InitLedgerSerial /\ [][NextLedger]_vars

\* Two workers call the ledger at once, on a pull request with few comments.
InitLedgerRace ==
  /\ pool = Workers
  /\ \E n \in {0, 1} : InitComments(n)
  /\ InitCommon

SpecLedgerRace == InitLedgerRace /\ [][NextLedger]_vars

\* --------------------------------------------------- DiffIndexer, LineResolver

\* findClosestReviewLine drops a suggestion further than this from any line.
MaxLineDistance == 20

\* createInlineReview posts at most this many comments: slice(0, 8).
MaxInlineComments == 8

Abs(n) == IF n < 0 THEN -n ELSE n

\* [...set].sort((a, b) => a - b)
RECURSIVE SortedSeq(_)
SortedSeq(S) ==
  IF S = {} THEN <<>>
  ELSE LET m == CHOOSE x \in S : \A y \in S : x <= y
       IN  <<m>> \o SortedSeq(S \ {m})

\* parseRightSideLinesFromPatch: the loop, from line i with the counters given.
RECURSIVE RightSideFrom(_, _, _, _)
RightSideFrom(patch, i, newLine, inHunk) ==
  IF i > Len(patch) THEN {}
  ELSE LET line == patch[i]
       IN  IF line.kind = "@@bad" THEN RightSideFrom(patch, i + 1, newLine, FALSE)
           ELSE IF line.kind = "@@" THEN RightSideFrom(patch, i + 1, line.start - 1, TRUE)
           ELSE IF ~inHunk THEN RightSideFrom(patch, i + 1, newLine, inHunk)
           ELSE IF line.kind = "+"
             THEN {newLine + 1} \cup RightSideFrom(patch, i + 1, newLine + 1, inHunk)
           ELSE IF line.kind = "-" THEN RightSideFrom(patch, i + 1, newLine, inHunk)
           ELSE IF line.kind = " "
             THEN {newLine + 1} \cup RightSideFrom(patch, i + 1, newLine + 1, inHunk)
           ELSE RightSideFrom(patch, i + 1, newLine, inHunk)

\* Mutant: the lines before the first hunk header are numbered from 1.
parseRightSideLinesFromPatch_InHunk(patch) ==
  SortedSeq(RightSideFrom(patch, 1, 0, TRUE))

parseRightSideLinesFromPatch(patch) == SortedSeq(RightSideFrom(patch, 1, 0, FALSE))

\* parseAddedLinesFromPatch: the loop, from line i with the counters given.
\* Every line of a hunk that is neither an added nor a removed line advances
\* the counter.
RECURSIVE AddedFrom(_, _, _, _)
AddedFrom(patch, i, newLine, inHunk) ==
  IF i > Len(patch) THEN <<>>
  ELSE LET line == patch[i]
       IN  IF line.kind = "@@bad" THEN AddedFrom(patch, i + 1, newLine, FALSE)
           ELSE IF line.kind = "@@" THEN AddedFrom(patch, i + 1, line.start - 1, TRUE)
           ELSE IF ~inHunk THEN AddedFrom(patch, i + 1, newLine, inHunk)
           ELSE IF line.kind = "+"
             THEN <<newLine + 1>> \o AddedFrom(patch, i + 1, newLine + 1, inHunk)
           ELSE IF line.kind = "-" THEN AddedFrom(patch, i + 1, newLine, inHunk)
           ELSE AddedFrom(patch, i + 1, newLine + 1, inHunk)

parseAddedLinesFromPatch(patch) == AddedFrom(patch, 1, 0, FALSE)

normalizePathForMatch(path) == path.segs

Basename(segs) == IF segs = <<>> THEN <<>> ELSE <<segs[Len(segs)]>>

\* a.endsWith(`/${b}`)
EndsWithSlash(a, b) ==
  /\ b # <<>>
  /\ Len(a) > Len(b)
  /\ SubSeq(a, Len(a) - Len(b) + 1, Len(a)) = b

buildFileLineIndexes(changedFiles) ==
  [i \in 1..Len(changedFiles) |->
     [ path |-> changedFiles[i].path,
       normalizedPath |-> normalizePathForMatch(changedFiles[i].path),
       basename |-> Basename(normalizePathForMatch(changedFiles[i].path)),
       rightLines |-> parseRightSideLinesFromPatch(changedFiles[i].patch) ]]

\* Mutant: without the rule for a single changed file.
resolvePathForInlineComment_NoSingleFile(requestedPath, indexes) ==
  LET requested == normalizePathForMatch(requestedPath)
      all == 1..Len(indexes)
      exact == {i \in all : indexes[i].normalizedPath = requested}
      suffixMatched ==
        {i \in all : \/ EndsWithSlash(indexes[i].normalizedPath, requested)
                     \/ EndsWithSlash(requested, indexes[i].normalizedPath)}
      basenameMatched == {i \in all : indexes[i].basename = Basename(requested)}
  IN  IF requested = <<>> THEN 0
      ELSE IF exact # {} THEN CHOOSE i \in exact : \A j \in exact : i <= j
      ELSE IF Cardinality(suffixMatched) = 1 THEN CHOOSE i \in suffixMatched : TRUE
      ELSE IF Cardinality(basenameMatched) = 1 THEN CHOOSE i \in basenameMatched : TRUE
      ELSE 0

\* resolvePathForInlineComment: the index of the resolved file, 0 for null.
resolvePathForInlineComment(requestedPath, indexes) ==
  LET requested == normalizePathForMatch(requestedPath)
      all == 1..Len(indexes)
      exact == {i \in all : indexes[i].normalizedPath = requested}
      suffixMatched ==
        {i \in all : \/ EndsWithSlash(indexes[i].normalizedPath, requested)
                     \/ EndsWithSlash(requested, indexes[i].normalizedPath)}
      basenameMatched == {i \in all : indexes[i].basename = Basename(requested)}
  IN  IF requested = <<>> THEN 0
      ELSE IF exact # {} THEN CHOOSE i \in exact : \A j \in exact : i <= j
      ELSE IF Cardinality(suffixMatched) = 1 THEN CHOOSE i \in suffixMatched : TRUE
      ELSE IF Cardinality(basenameMatched) = 1 THEN CHOOSE i \in basenameMatched : TRUE
      ELSE IF Len(indexes) = 1 THEN 1
      ELSE 0

\* Mutant: a line as near as the best so far replaces it.
RECURSIVE ClosestFrom_LastOnTie(_, _, _, _)
ClosestFrom_LastOnTie(rightLines, i, targetLine, bestLine) ==
  IF i > Len(rightLines) THEN bestLine
  ELSE IF Abs(rightLines[i] - targetLine) <= Abs(bestLine - targetLine)
    THEN ClosestFrom_LastOnTie(rightLines, i + 1, targetLine, rightLines[i])
  ELSE ClosestFrom_LastOnTie(rightLines, i + 1, targetLine, bestLine)

\* The loop of findClosestReviewLine: the first line at the least distance.
RECURSIVE ClosestFrom(_, _, _, _)
ClosestFrom(rightLines, i, targetLine, bestLine) ==
  IF i > Len(rightLines) THEN bestLine
  ELSE IF Abs(rightLines[i] - targetLine) < Abs(bestLine - targetLine)
    THEN ClosestFrom(rightLines, i + 1, targetLine, rightLines[i])
  ELSE ClosestFrom(rightLines, i + 1, targetLine, bestLine)

\* Mutant: the first right line is taken whatever the suggested line is.
findClosestReviewLine_FirstLine(targetLine, rightLines) ==
  IF targetLine <= 0 \/ rightLines = <<>> THEN 0 ELSE rightLines[1]

\* Mutant: the suggested line is taken as it is.
findClosestReviewLine_AsSuggested(targetLine, rightLines) ==
  IF targetLine <= 0 THEN 0 ELSE targetLine

\* findClosestReviewLine: the line to comment on, 0 for null.
findClosestReviewLine(targetLine, rightLines) ==
  IF targetLine <= 0 THEN 0
  ELSE IF rightLines = <<>> THEN 0
  ELSE IF targetLine \in Range(rightLines) THEN targetLine
  ELSE LET bestLine == ClosestFrom(rightLines, 1, targetLine, rightLines[1])
       IN  IF Abs(bestLine - targetLine) > MaxLineDistance THEN 0 ELSE bestLine

\* resolved.set(key, comment): a Map keeps the place of a key it already
\* holds and takes the new value.
MapSet(resolved, comment) ==
  LET at == {i \in 1..Len(resolved) :
               resolved[i].path = comment.path /\ resolved[i].line = comment.line}
  IN  IF at = {} THEN Append(resolved, comment)
      ELSE [i \in 1..Len(resolved) |-> IF i \in at THEN comment ELSE resolved[i]]

\* new Map(indexes.map((item) => [item.path, item.rightLines])).get(path):
\* the entry of the last file with the path.
rightLinesByPath(indexes, path) ==
  LET at == {i \in 1..Len(indexes) : indexes[i].path = path}
  IN  IF at = {} THEN <<>>
      ELSE indexes[CHOOSE i \in at : \A j \in at : j <= i].rightLines

\* The for loop of createInlineReview over comments[i..].
RECURSIVE ResolveFrom(_, _, _, _)
ResolveFrom(items, i, indexes, resolved) ==
  IF i > Len(items) THEN resolved
  ELSE LET item == items[i]
           file == resolvePathForInlineComment(item.path, indexes)
           resolvedLine ==
             IF file = 0 THEN 0
             ELSE findClosestReviewLine(item.line,
                    rightLinesByPath(indexes, indexes[file].path))
       IN  IF item.body = "" \/ file = 0 \/ resolvedLine = 0
           THEN ResolveFrom(items, i + 1, indexes, resolved)
           ELSE ResolveFrom(items, i + 1, indexes,
                  MapSet(resolved,
                    [path |-> indexes[file].path, line |-> resolvedLine,
                     body |-> item.body]))

\* validComments of createInlineReview
ValidComments(items, changedFiles) ==
  LET resolved == ResolveFrom(items, 1, buildFileLineIndexes(changedFiles), <<>>)
  IN  SubSeq(resolved, 1, Min(Len(resolved), MaxInlineComments))

\* ------------------------------------------------------ InlineReviewPoster

\* pulls.get(...).data.head.sha: the pull request's head is the branch tip.
PullHeadSha == branch

\* Mutant: the listing is searched for the summary comment's marker.
IsPostedReview_WrongMarker(review, headSha) ==
  /\ review.bot
  /\ review.commit_id = headSha
  /\ Includes(review.body, REVIEW_COMMENT_MARKER)

\* Mutant: the search is not scoped to the head commit.
IsPostedReview_AnyHead(review, headSha) ==
  /\ review.bot
  /\ Includes(review.body, LINE_REVIEW_MARKER)

\* The predicate of reviews.some(...) in createInlineReview.
IsPostedReview(review, headSha) ==
  /\ review.bot
  /\ review.commit_id = headSha
  /\ Includes(review.body, LINE_REVIEW_MARKER)

\* createInlineReview, await pulls.get; then the suggestions are resolved.
createInlineReview_get(w) ==
  /\ pc[w] = "review_get"
  /\ LET validComments == ValidComments(loc[w].suggestions, loc[w].files)
     IN  /\ loc' = [loc EXCEPT ![w].head = PullHeadSha, ![w].valid = validComments]
         /\ IF validComments = <<>>
            THEN /\ log' = Append(log, [op |-> "createInlineReview", w |-> w,
                                        args |-> loc'[w], result |-> "no_valid_comments"])
                 /\ pc' = [pc EXCEPT ![w] = ret[w]]
                 /\ ret' = [ret EXCEPT ![w] = "idle"]
                 /\ onThrow' = [onThrow EXCEPT ![w] = IF ret[w] = "idle" THEN "idle" ELSE @]
            ELSE /\ pc' = [pc EXCEPT ![w] = "review_list"]
                 /\ UNCHANGED <<ret, onThrow, log>>
  /\ UNCHANGED <<events, queue, octokitCache, ai, input, output, pool, pullBody, comments, nextId, reviews, commits, branch, pushed, job,
                 started, failures>>

\* createInlineReview, await listPullReviews (every page)
createInlineReview_list(w) ==
  /\ pc[w] = "review_list"
  /\ IF \E i \in 1..Len(reviews) : IsPostedReview(reviews[i], loc[w].head)
     THEN /\ Return(w, "createInlineReview", "already_posted")
     ELSE /\ pc' = [pc EXCEPT ![w] = "review_create"]
          /\ UNCHANGED <<ret, onThrow, log>>
  /\ UNCHANGED <<events, queue, octokitCache, ai, input, output, pool, pullBody, comments, nextId, reviews, commits, branch, pushed, loc,
                 job, started, failures>>

\* pulls.listFiles: the files of the pull request's diff at a commit.
PullFilesAt(sha) == commits[sha].files

\* GitHub takes a review comment only on a line of the right side of the
\* diff of the commit the review is created on.
Addressable(comment, sha) ==
  \E f \in 1..Len(PullFilesAt(sha)) :
    /\ PullFilesAt(sha)[f].path = comment.path
    /\ comment.line \in Range(parseRightSideLinesFromPatch(PullFilesAt(sha)[f].patch))

\* createInlineReview, await pulls.createReview (422 for a comment on a line
\* that is not part of the diff)
createInlineReview_create(w) ==
  /\ pc[w] = "review_create"
  /\ loc' = [loc EXCEPT ![w].writes = Append(@, "createReview")]
  /\ IF \A c \in 1..Len(loc[w].valid) : Addressable(loc[w].valid[c], loc[w].head)
     THEN /\ reviews' = Append(reviews,
                          [ bot |-> TRUE, commit_id |-> loc[w].head,
                            body |-> Body(LINE_REVIEW_MARKER, loc[w].body),
                            comments |-> loc[w].valid ])
          /\ log' = Append(log, [op |-> "createInlineReview", w |-> w,
                                 args |-> loc'[w], result |-> "posted"])
          /\ pc' = [pc EXCEPT ![w] = ret[w]]
          /\ ret' = [ret EXCEPT ![w] = "idle"]
          /\ onThrow' = [onThrow EXCEPT ![w] = IF ret[w] = "idle" THEN "idle" ELSE @]
     ELSE /\ UNCHANGED reviews
          /\ log' = Append(log, [op |-> "createInlineReview", w |-> w,
                                 args |-> loc'[w], result |-> "threw"])
          /\ pc' = [pc EXCEPT ![w] = onThrow[w]]
          /\ ret' = [ret EXCEPT ![w] = "idle"]
          /\ onThrow' = [onThrow EXCEPT ![w] = "idle"]
  /\ UNCHANGED <<events, queue, octokitCache, ai, input, output, pool, pullBody, comments, nextId, commits, branch, pushed, job, started,
                 failures>>

\* A caller invokes createInlineReview(context, summaryBody, comments, changedFiles).
CallInlineReview(w, summaryBody, suggestions, changedFiles, cont, handler) ==
  /\ loc' = [loc EXCEPT ![w] =
               [NoLocals EXCEPT !.body = summaryBody, !.suggestions = suggestions,
                                !.files = changedFiles]]
  /\ pc' = [pc EXCEPT ![w] = "review_get"]
  /\ ret' = [ret EXCEPT ![w] = cont]
  /\ onThrow' = [onThrow EXCEPT ![w] = handler]

Suggestion(path, line, body) == [path |-> path, line |-> line, body |-> body]

\* Suggestion lists of the AI: one on a diff line, one too far from the diff,
\* and a far one followed by one near the diff under a relative path.
SuggestionLists ==
  { <<Suggestion(MainJava, 2, "s1")>>,
    <<Suggestion(MainJava, 4 + MaxLineDistance + 1, "s3")>>,
    <<Suggestion(MainJava, 4 + MaxLineDistance + 1, "s3"),
      Suggestion(Path("./", <<"Main.java">>), 9, "s2")>> }

\* Direct call: createInlineReview(context, summaryBody, comments, changedFiles)
\* with the changed files the caller has just loaded.
StartInlineReview(w) ==
  /\ CanStart(w)
  /\ \E suggestions \in SuggestionLists :
       CallInlineReview(w, "summary", suggestions, PullFilesAt(branch),
                        "idle", "idle")
  /\ started' = started + 1
  /\ UNCHANGED <<events, queue, octokitCache, ai, input, output, pool, pullBody, comments, nextId, reviews, commits, branch, pushed, job,
                 log, failures>>

\* ------------------------------------------------------------ other writers

\* git push by the pull request's author: a new commit on top of the tip that
\* edits the solution file.
UserPush ==
  /\ Len(pushed) < MaxPushes
  /\ commits' = Append(commits,
                  [parent |-> branch,
                   tree |-> [commits[branch].tree EXCEPT
                               !["Main.java"] = IF @ = "x" THEN "y" ELSE "x"],
                   bot |-> FALSE,
                   files |-> IF commits[branch].tree["Main.java"] = "x"
                             THEN PushedFiles ELSE ChangedFiles])
  /\ branch' = Len(commits) + 1
  /\ pushed' = Append(pushed, Len(commits) + 1)
  /\ UNCHANGED <<events, queue, octokitCache, ai, input, output, pool, pullBody, comments, nextId, reviews, pc, ret, onThrow, loc, job,
                 log, started, failures>>

\* Reviews already on the pull request: none, or one by a person who quotes
\* the bot's marker, on the first commit.
InitReviews ==
  \E rs \in { <<>>,
              <<[bot |-> FALSE, commit_id |-> 1,
                 body |-> Body(LINE_REVIEW_MARKER, "quoted"), comments |-> <<>>]>> } :
    reviews = rs

InitReview ==
  /\ pullBody = "complete"
  /\ InitComments(0)
  /\ InitReviews
  /\ InitRest

NextReview ==
  \/ UserPush
  \/ \E w \in Workers :
       \/ StartInlineReview(w)
       \/ createInlineReview_get(w)
       \/ createInlineReview_list(w)
       \/ createInlineReview_create(w)

InitReviewSerial == pool = {"w1"} /\ InitReview
SpecReviewSerial == InitReviewSerial /\ [][NextReview]_vars

InitReviewRace == pool = Workers /\ InitReview
SpecReviewRace == InitReviewRace /\ [][NextReview]_vars

\* ---------------------------------------------------------- BranchCommitter

\* Whether commit a is commit b or one of its ancestors.
RECURSIVE IsAncestor(_, _)
IsAncestor(a, b) ==
  IF b = 0 THEN FALSE
  ELSE IF a = b THEN TRUE
  ELSE IsAncestor(a, commits[b].parent)

\* getTextFileContent: null for a directory or a missing file, for a file
\* whose content field is empty (!content.data.content), and when getContent
\* rejects (the catch); the decoded text otherwise.
getTextFileContent(tree, path, rejected) ==
  IF rejected THEN Null
  ELSE IF tree[path] = Absent THEN Null
  ELSE IF tree[path] = "" THEN Null
  ELSE tree[path]

\* Mutant: createTree is sent without base_tree, the planned blobs only.
createTree_NoBase(baseTree, files) ==
  [p \in Paths |->
     IF \E i \in 1..Len(files) : files[i].path = p
     THEN files[CHOOSE i \in 1..Len(files) : files[i].path = p].content
     ELSE Absent]

\* git.createTree({ base_tree, tree: files.map(...) }): the base tree with the
\* planned blobs laid over it.
createTree(baseTree, files) ==
  [p \in Paths |->
     IF \E i \in 1..Len(files) : files[i].path = p
     THEN files[CHOOSE i \in 1..Len(files) : files[i].path = p].content
     ELSE baseTree[p]]

\* Mutant: updateRef is sent with force: true.
UpdateRefAccepted_Forced(current, sha) == TRUE

\* git.updateRef({ force: false }): GitHub takes the update only when it is a
\* fast-forward of the ref.
UpdateRefAccepted(current, sha) == IsAncestor(current, sha)

\* commitFilesToPrBranch, one getTextFileContent of the Promise.all: the read
\* is served at the branch tip and may be rejected.
commitFilesToPrBranch_read(w) ==
  /\ pc[w] = "commit_read"
  /\ \E rejected \in BOOLEAN :
       LET i == Len(loc[w].unchanged) + 1
           file == loc[w].plan[i]
           existing == getTextFileContent(commits[branch].tree, file.path, rejected)
           unchangedResults == Append(loc[w].unchanged, existing = file.content)
           after == [loc[w] EXCEPT !.unchanged = unchangedResults,
                                   !.seenTips = @ \cup {branch},
                                   !.rejectedReads = @ \/ rejected]
       IN  /\ loc' = [loc EXCEPT ![w] = after]
           /\ IF i < Len(loc[w].plan)
              THEN /\ UNCHANGED <<pc, ret, onThrow, log, job>>
              ELSE IF \A k \in 1..Len(unchangedResults) : unchangedResults[k]
              THEN /\ log' = Append(log, [op |-> "commitFilesToPrBranch", w |-> w,
                                          args |-> after, result |-> "false"])
                   /\ pc' = [pc EXCEPT ![w] = ret[w]]
                   /\ ret' = [ret EXCEPT ![w] = "idle"]
                   /\ onThrow' = [onThrow EXCEPT ![w] =
                                    IF ret[w] = "idle" THEN "idle" ELSE @]
                   /\ UNCHANGED job
              ELSE /\ pc' = [pc EXCEPT ![w] = "commit_getRef"]
                   /\ UNCHANGED <<ret, onThrow, log, job>>
  /\ UNCHANGED <<events, queue, octokitCache, ai, input, output, pool, pullBody, comments, nextId, reviews, commits, branch, pushed,
                 started, failures>>

\* commitFilesToPrBranch, await git.getRef and git.getCommit
commitFilesToPrBranch_getRef(w) ==
  /\ pc[w] = "commit_getRef"
  /\ loc' = [loc EXCEPT ![w].base = branch, ![w].seenTips = @ \cup {branch}]
  /\ pc' = [pc EXCEPT ![w] = "commit_createTree"]
  /\ UNCHANGED <<events, queue, octokitCache, ai, input, output, pool, pullBody, comments, nextId, reviews, commits, branch, pushed, ret,
                 onThrow, job, log, started, failures>>

\* commitFilesToPrBranch, await git.createTree
commitFilesToPrBranch_createTree(w) ==
  /\ pc[w] = "commit_createTree"
  /\ loc' = [loc EXCEPT
               ![w].tree = createTree(commits[loc[w].base].tree, loc[w].plan),
               ![w].writes = Append(@, "createTree"),
               ![w].seenTips = @ \cup {branch}]
  /\ pc' = [pc EXCEPT ![w] = "commit_createCommit"]
  /\ UNCHANGED <<events, queue, octokitCache, ai, input, output, pool, pullBody, comments, nextId, reviews, commits, branch, pushed, ret,
                 onThrow, job, log, started, failures>>

\* commitFilesToPrBranch, await git.createCommit
commitFilesToPrBranch_createCommit(w) ==
  /\ pc[w] = "commit_createCommit"
  /\ commits' = Append(commits,
                  [parent |-> loc[w].base, tree |-> loc[w].tree, bot |-> TRUE,
                   files |-> commits[loc[w].base].files])
  /\ loc' = [loc EXCEPT ![w].newCommit = Len(commits) + 1,
                        ![w].writes = Append(@, "createCommit"),
                        ![w].seenTips = @ \cup {branch}]
  /\ pc' = [pc EXCEPT ![w] = "commit_updateRef"]
  /\ UNCHANGED <<events, queue, octokitCache, ai, input, output, pool, pullBody, comments, nextId, reviews, branch, pushed, ret, onThrow,
                 job, log, started, failures>>

\* commitFilesToPrBranch, await git.updateRef (422 when not a fast-forward)
commitFilesToPrBranch_updateRef(w) ==
  /\ pc[w] = "commit_updateRef"
  /\ LET after == [loc[w] EXCEPT !.writes = Append(@, "updateRef"),
                                 !.seenTips = @ \cup {branch}]
     IN  /\ loc' = [loc EXCEPT ![w] = after]
         /\ IF UpdateRefAccepted(branch, loc[w].newCommit)
            THEN /\ branch' = loc[w].newCommit
                 /\ job' = [job EXCEPT ![w].commitsMade = @ + 1]
                 /\ log' = Append(log, [op |-> "commitFilesToPrBranch", w |-> w,
                                        args |-> after, result |-> "true"])
                 /\ pc' = [pc EXCEPT ![w] = ret[w]]
                 /\ ret' = [ret EXCEPT ![w] = "idle"]
                 /\ onThrow' = [onThrow EXCEPT ![w] =
                                  IF ret[w] = "idle" THEN "idle" ELSE @]
            ELSE /\ UNCHANGED branch
                 /\ job' = [job EXCEPT ![w].refRejected = TRUE]
                 /\ log' = Append(log, [op |-> "commitFilesToPrBranch", w |-> w,
                                        args |-> after, result |-> "threw"])
                 /\ pc' = [pc EXCEPT ![w] = onThrow[w]]
                 /\ ret' = [ret EXCEPT ![w] = "idle"]
                 /\ onThrow' = [onThrow EXCEPT ![w] = "idle"]
  /\ UNCHANGED <<events, queue, octokitCache, ai, input, output, pool, pullBody, comments, nextId, reviews, commits, pushed, started,
                 failures>>

\* A caller invokes commitFilesToPrBranch(context, message, files).
CallCommit(w, files, cont, handler) ==
  /\ loc' = [loc EXCEPT ![w] = [NoLocals EXCEPT !.plan = files]]
  /\ pc' = [pc EXCEPT ![w] = "commit_read"]
  /\ ret' = [ret EXCEPT ![w] = cont]
  /\ onThrow' = [onThrow EXCEPT ![w] = handler]

File(path, content) == [path |-> path, content |-> content]

\* Plans of direct calls: one file with each content, the empty one included,
\* and two files of which the second is or is not as on the branch.
Plans ==
  {<<File("README.md", c)>> : c \in {"", "x"}}
    \cup {<<File("README.md", "x"), File("Main.java", c)>> : c \in {"x", "y"}}

\* Direct call: commitFilesToPrBranch(context, message, files)
StartCommit(w) ==
  /\ CanStart(w)
  /\ \E files \in Plans : CallCommit(w, files, "idle", "idle")
  /\ started' = started + 1
  /\ UNCHANGED <<events, queue, octokitCache, ai, input, output, pool, pullBody, comments, nextId, reviews, commits, branch, pushed, job,
                 log, failures>>

\* git push --force by the pull request's author that drops the tip commit.
UserRewind ==
  /\ Len(pushed) < MaxPushes
  /\ commits[branch].parent # 0
  /\ branch' = commits[branch].parent
  /\ pushed' = Append(pushed, commits[branch].parent)
  /\ UNCHANGED <<events, queue, octokitCache, ai, input, output, pool, pullBody, comments, nextId, reviews, commits, pc, ret, onThrow,
                 loc, job, log, started, failures>>

NextCommit ==
  \/ UserPush
  \/ UserRewind
  \/ \E w \in Workers :
       \/ StartCommit(w)
       \/ commitFilesToPrBranch_read(w)
       \/ commitFilesToPrBranch_getRef(w)
       \/ commitFilesToPrBranch_createTree(w)
       \/ commitFilesToPrBranch_createCommit(w)
       \/ commitFilesToPrBranch_updateRef(w)

\* One worker commits to the branch while its author may push to it.
InitCommit ==
  /\ pool = {"w1"}
  /\ InitComments(0)
  /\ InitCommon

SpecCommit == InitCommit /\ [][NextCommit]_vars

\* --------------------------------------------------------------- the worker

\* Records of the SQS event: a pull_request job, a push job, and a payload
\* whose type processJob does not support.  A message may be delivered again.
Messages ==
  { [messageId |-> 1, type |-> "pull_request"],
    [messageId |-> 2, type |-> "push"],
    [messageId |-> 3, type |-> "unsupported"] }

\* buildProblemMarkdown's text and the language profile's fallbackTemplate.
ProblemMarkdown == "x"
FallbackTemplate == "t"

\* Seven suggestions far from the diff: six for the solution file and, in
\* between, one for a file that was not changed.
ManySuggestions ==
  [k \in 1..7 |->
     IF k = 3 THEN Suggestion(Path("", <<"Other.java">>), 40, "s3")
     ELSE Suggestion(MainJava, 4 + MaxLineDistance + k, "s1")]

\* What generateAiReview hands back: null, or a review with its suggestions.
AiReviews == {<<>>} \cup SuggestionLists \cup {ManySuggestions}

\* The result of the operation the worker awaited last.
LastResult(w) ==
  log[CHOOSE i \in 1..Len(log) :
        log[i].w = w /\ \A k \in (i + 1)..Len(log) : log[k].w # w].result

\* handler: the next record of the event is parsed (parseWorkerJob).
handler_receive(w) ==
  /\ CanStart(w)
  /\ \E m \in Messages :
       job' = [job EXCEPT ![w] =
                 [NoJob EXCEPT !.type = m.type, !.messageId = m.messageId]]
  /\ pc' = [pc EXCEPT ![w] = "processJob"]
  /\ started' = started + 1
  /\ UNCHANGED <<events, queue, octokitCache, ai, input, output, pool, pullBody, comments, nextId, reviews, commits, branch,
                 pushed, ret, onThrow, loc, log, failures>>

\* processJob: the switch on job.type; its default case throws.
processJob(w) ==
  /\ pc[w] = "processJob"
  /\ pc' = [pc EXCEPT ![w] =
              IF job[w].type = "push" THEN "push_list"
              ELSE IF job[w].type = "pull_request" THEN "pr_get"
              ELSE "handler_catch"]
  /\ UNCHANGED <<events, queue, octokitCache, ai, input, output, pool, pullBody, comments, nextId, reviews, commits, branch,
                 pushed, ret, onThrow, loc, job, log, started, failures>>

\* handlePushJob: await pulls.list, then the template notice for the open
\* pull request whose description lacks a required field.
handlePushJob(w) ==
  /\ pc[w] = "push_list"
  /\ IF pullBody = "complete"
     THEN /\ pc' = [pc EXCEPT ![w] = "handler_done"]
          /\ UNCHANGED <<ret, onThrow, loc>>
     ELSE CallUpsert(w, TEMPLATE_COMMENT_MARKER, "guide",
                     "handler_done", "handler_catch")
  /\ UNCHANGED <<events, queue, octokitCache, ai, input, output, pool, pullBody, comments, nextId, reviews, commits, branch,
                 pushed, job, log, started, failures>>

\* handlePullRequestJob: await pulls.get, then the template gate.  The pull
\* request is from a branch of the repository itself.
handlePullRequestJob_get(w) ==
  /\ pc[w] = "pr_get"
  /\ job' = [job EXCEPT ![w].body = pullBody]
  /\ IF pullBody = "incomplete"
     THEN CallUpsert(w, TEMPLATE_COMMENT_MARKER, "guide",
                     "handler_done", "handler_catch")
     ELSE /\ loc' = [loc EXCEPT ![w] = NoLocals]
          /\ pc' = [pc EXCEPT ![w] = "remove_list"]
          /\ ret' = [ret EXCEPT ![w] = "pr_sync"]
          /\ onThrow' = [onThrow EXCEPT ![w] = "handler_catch"]
  /\ UNCHANGED <<events, queue, octokitCache, ai, input, output, pool, pullBody, comments, nextId, reviews, commits, branch,
                 pushed, log, started, failures>>

\* handlePullRequestJob, in the try: the problem is crawled, the solution is
\* read from the branch (|| fallbackTemplate) and the two files are committed.
handlePullRequestJob_sync(w) ==
  /\ pc[w] = "pr_sync"
  /\ \E rejected \in BOOLEAN :
       LET read == getTextFileContent(commits[branch].tree, "Main.java", rejected)
           sourceCode == IF read = Null THEN FallbackTemplate ELSE read
       IN  CallCommit(w, << File("README.md", ProblemMarkdown),
                            File("Problem.java", sourceCode) >>,
                      "pr_generate", "pr_catch")
  /\ UNCHANGED <<events, queue, octokitCache, ai, input, output, pool, pullBody, comments, nextId, reviews, commits, branch,
                 pushed, job, log, started, failures>>

\* loadChangedFilesForReview: the code files of the diff whose content could
\* be read (a file whose getContent is rejected is left out).
loadChangedFilesForReview(sha, unread) ==
  LET files == PullFilesAt(sha)
      kept == SortedSeq({i \in 1..Len(files) : i \notin unread})
  IN  [k \in 1..Len(kept) |-> files[kept[k]]]

\* Mutant: the job goes on after the failure notice.
AiUnavailable_NoReturn(w, changedFiles) ==
  /\ CallUpsert(w, REVIEW_COMMENT_MARKER, "ai-failed", "pr_inline", "pr_catch")
  /\ job' = [job EXCEPT ![w].files = changedFiles, ![w].aiReview = "null"]

\* handlePullRequestJob, if (!aiReview): the failure notice, then return.
AiUnavailable(w, changedFiles) ==
  /\ CallUpsert(w, REVIEW_COMMENT_MARKER, "ai-failed", "handler_done", "pr_catch")
  /\ job' = [job EXCEPT ![w].files = changedFiles, ![w].aiReview = "null"]

\* handlePullRequestJob: await loadChangedFilesForReview and generateAiReview,
\* then the ai-review comment: the failure notice or the summary.
handlePullRequestJob_generate(w) ==
  /\ pc[w] = "pr_generate"
  /\ \E unread \in SUBSET (1..Len(PullFilesAt(branch))) :
       LET changedFiles == loadChangedFilesForReview(branch, unread)
       IN  \/ AiUnavailable(w, changedFiles)
           \/ \E inlineSuggestions \in AiReviews :
                /\ job' = [job EXCEPT ![w].suggestions = inlineSuggestions,
                                      ![w].files = changedFiles,
                                      ![w].aiReview = "review"]
                /\ CallUpsert(w, REVIEW_COMMENT_MARKER, "summary",
                              "pr_inline", "pr_catch")
  /\ UNCHANGED <<events, queue, octokitCache, ai, input, output, pool, pullBody, comments, nextId, reviews,
                 commits, branch, pushed, log, started, failures>>

\* handlePullRequestJob: await createInlineReview(...)
handlePullRequestJob_inline(w) ==
  /\ pc[w] = "pr_inline"
  /\ CallInlineReview(w, "inline-notice", job[w].suggestions, job[w].files,
                      "pr_fileLevel", "pr_catch")
  /\ UNCHANGED <<events, queue, octokitCache, ai, input, output, pool, pullBody, comments, nextId, reviews,
                 commits, branch, pushed, job, log, started, failures>>

\* list.slice(0, 5) of upsertFileLevelReviewComment.
FileLevelItems_All(list) == list

FileLevelItems(list) == SubSeq(list, 1, Min(Len(list), 5))

\* grouped of upsertFileLevelReviewComment: the suggested paths in the order
\* of their first suggestion, each with its suggestions in order.
RECURSIVE GroupedFrom(_, _, _)
GroupedFrom(items, i, grouped) ==
  IF i > Len(items) THEN grouped
  ELSE LET at == {g \in 1..Len(grouped) : grouped[g].path = items[i].path}
       IN  GroupedFrom(items, i + 1,
             IF at = {}
               THEN Append(grouped, [path |-> items[i].path, list |-> <<items[i]>>])
               ELSE [g \in 1..Len(grouped) |->
                       IF g \in at
                         THEN [grouped[g] EXCEPT !.list = Append(@, items[i])]
                         ELSE grouped[g]])

\* bodyLines of upsertFileLevelReviewComment after the notice: per path the
\* heading and one line for each of its first five suggestions.
FileLevelBodyLines(items) ==
  LET grouped == GroupedFrom(items, 1, <<>>)
  IN  [g \in 1..Len(grouped) |->
         [path |-> grouped[g].path,
          items |-> LET list == FileLevelItems(grouped[g].list)
                    IN  [k \in 1..Len(list) |->
                           [line |-> list[k].line, body |-> list[k].body]]]]

\* upsertFileLevelReviewComment(context, comments)
upsertFileLevelReviewComment(w, items, cont, handler) ==
  /\ loc' = [loc EXCEPT ![w] =
               [NoLocals EXCEPT !.marker = FILE_REVIEW_MARKER,
                                !.body = "file-level",
                                !.bodyLines = FileLevelBodyLines(items),
                                !.before =
                                  Cardinality(BotComments(FILE_REVIEW_MARKER))]]
  /\ pc' = [pc EXCEPT ![w] = "upsert_list"]
  /\ ret' = [ret EXCEPT ![w] = cont]
  /\ onThrow' = [onThrow EXCEPT ![w] = handler]

\* handlePullRequestJob: the file-level comment when no suggestion resolved.
handlePullRequestJob_fileLevel(w) ==
  /\ pc[w] = "pr_fileLevel"
  /\ IF LastResult(w) = "no_valid_comments" /\ Len(job[w].suggestions) > 0
     THEN upsertFileLevelReviewComment(w, job[w].suggestions,
                                       "handler_done", "pr_catch")
     ELSE /\ pc' = [pc EXCEPT ![w] = "handler_done"]
          /\ UNCHANGED <<ret, onThrow, loc>>
  /\ UNCHANGED <<events, queue, octokitCache, ai, input, output, pool, pullBody, comments, nextId, reviews, commits, branch,
                 pushed, job, log, started, failures>>

\* handlePullRequestJob, the catch: the error notice replaces the ai-review
\* comment and the job returns.
handlePullRequestJob_catch(w) ==
  /\ pc[w] = "pr_catch"
  /\ CallUpsert(w, REVIEW_COMMENT_MARKER, "error", "handler_done", "handler_catch")
  /\ UNCHANGED <<events, queue, octokitCache, ai, input, output, pool, pullBody, comments, nextId, reviews, commits, branch,
                 pushed, job, log, started, failures>>

\* What the handler's loop leaves behind for a record.
EndOfJob(w, result) ==
  /\ log' = Append(log, [op |-> "processJob", w |-> w, args |-> NoLocals,
                         result |-> result, job |-> job[w]])
  /\ pc' = [pc EXCEPT ![w] = "idle"]
  /\ ret' = [ret EXCEPT ![w] = "idle"]
  /\ onThrow' = [onThrow EXCEPT ![w] = "idle"]
  /\ loc' = [loc EXCEPT ![w] = NoLocals]
  /\ job' = [job EXCEPT ![w] = NoJob]

\* handler: processJob returned, the record is not reported.
handler_done(w) ==
  /\ pc[w] = "handler_done"
  /\ EndOfJob(w, "completed")
  /\ UNCHANGED <<events, queue, octokitCache, ai, input, output, pool, pullBody, comments, nextId, reviews, commits, branch,
                 pushed, started, failures>>

\* handler, the catch: failures.push({ itemIdentifier: record.messageId })
handler_catch(w) ==
  /\ pc[w] = "handler_catch"
  /\ failures' = failures \cup {job[w].messageId}
  /\ EndOfJob(w, "failed")
  /\ UNCHANGED <<events, queue, octokitCache, ai, input, output, pool, pullBody, comments, nextId, reviews, commits, branch,
                 pushed, started>>

NextJob ==
  \/ UserPush
  \/ \E w \in Workers :
       \/ handler_receive(w)
       \/ processJob(w)
       \/ handlePushJob(w)
       \/ handlePullRequestJob_get(w)
       \/ handlePullRequestJob_sync(w)
       \/ handlePullRequestJob_generate(w)
       \/ handlePullRequestJob_inline(w)
       \/ handlePullRequestJob_fileLevel(w)
       \/ handlePullRequestJob_catch(w)
       \/ handler_done(w)
       \/ handler_catch(w)
       \/ upsertIssueComment_list(w)
       \/ upsertIssueComment_update(w)
       \/ upsertIssueComment_create(w)
       \/ removeTemplateCheckComment_list(w)
       \/ removeTemplateCheckComment_delete(w)
       \/ createInlineReview_get(w)
       \/ createInlineReview_list(w)
       \/ createInlineReview_create(w)
       \/ commitFilesToPrBranch_read(w)
       \/ commitFilesToPrBranch_getRef(w)
       \/ commitFilesToPrBranch_createTree(w)
       \/ commitFilesToPrBranch_createCommit(w)
       \/ commitFilesToPrBranch_updateRef(w)

\* The pull request when a job arrives: its description lacks a field, or it
\* is complete and the notice of an earlier job may still be on it.
InitJob ==
  /\ pool = {"w1"}
  /\ reviews = <<>>
  /\ \/ /\ pullBody = "incomplete"
        /\ InitComments(0)
     \/ /\ pullBody = "complete"
        /\ \/ InitComments(0)
           \/ /\ comments = <<[id |-> 1, bot |-> TRUE,
                               body |-> Body(TEMPLATE_COMMENT_MARKER, "guide")]>>
              /\ nextId = 2
  /\ InitRest

SpecJob == InitJob /\ [][NextJob]_vars

\* ------------------------------------------------- the functions on their own

\* A function is evaluated while no worker runs.
InitQuiet ==
  /\ pool = {"w1"}
  /\ InitComments(0)
  /\ reviews = <<>>
  /\ pullBody = "complete"
  /\ output = NoValue
  /\ InitProcess

\* Lines a patch is made of: hunk headers starting at 1 and at 3, a header
\* without "+c", added and removed lines (also ones whose text starts with
\* "++" or "--"), a context line, the no-newline marker and an empty line.
PatchLines ==
  {HunkHeader(1), HunkHeader(3)}
    \cup {PatchLine(k) : k \in {"@@bad", "+", "+++", "-", "---", " ", "\\", ""}}

Patches == UNION {[1..n -> PatchLines] : n \in 0..MaxPatchLen}

\* loadChangedFilesForReview and buildFileLineIndexes parse a file's patch.
ParsePatch ==
  /\ input.fn = "parsePatch"
  /\ output = NoValue
  /\ output' = [fn |-> "parsePatch",
                addedLines |-> parseAddedLinesFromPatch(input.patch),
                rightLines |-> parseRightSideLinesFromPatch(input.patch)]
  /\ UNCHANGED <<events, queue, octokitCache, ai, input, pool, pullBody, comments, nextId, reviews, commits,
                 branch, pushed, pc, ret, onThrow, loc, job, log, started,
                 failures>>

InitPatch ==
  /\ \E patch \in Patches : input = [fn |-> "parsePatch", patch |-> patch]
  /\ commits = InitialCommits
  /\ InitQuiet

NextPatch == ParsePatch

SpecPatch == InitPatch /\ [][NextPatch]_vars

\* Changed-file lists: none; the one file of the scenario; that file and its
\* test; two files with one basename; a file with an empty patch and the test.
TestPath == Path("", <<"test", "MainTest.java">>)
TestPatch == <<HunkHeader(10), PatchLine("+"), PatchLine("-"), PatchLine(" ")>>
LibPath == Path("", <<"lib", "Main.java">>)

\* A patch cut off before its hunk header: an added and a context line.
HeaderlessPatch == <<PatchLine("+"), PatchLine(" ")>>

FileLists ==
  { <<>>,
    ChangedFiles,
    <<[path |-> MainJava, patch |-> MainPatch], [path |-> TestPath, patch |-> TestPatch]>>,
    <<[path |-> MainJava, patch |-> MainPatch], [path |-> LibPath, patch |-> TestPatch]>>,
    <<[path |-> MainJava, patch |-> <<>>], [path |-> TestPath, patch |-> TestPatch]>>,
    <<[path |-> MainJava, patch |-> HeaderlessPatch],
      [path |-> TestPath, patch |-> TestPatch]>> }

\* Suggestions of the AI: on a diff line, on it again under a relative path,
\* near the diff, at and beyond the distance limit, on line 0, without a
\* body, in a file that was not changed, in the test by path and by name,
\* without a path, and by a name two files may share.
Suggestions ==
  { Suggestion(MainJava, 2, "s1"),
    Suggestion(Path("./", <<"Main.java">>), 2, "s2"),
    Suggestion(MainJava, 9, "s1"),
    Suggestion(MainJava, 4 + MaxLineDistance, "s1"),
    Suggestion(MainJava, 4 + MaxLineDistance + 1, "s1"),
    Suggestion(MainJava, 0, "s1"),
    Suggestion(MainJava, 2, ""),
    Suggestion(Path("", <<"Other.java">>), 3, "s1"),
    Suggestion(TestPath, 10, "s1"),
    Suggestion(Path("/", <<"MainTest.java">>), 14, "s1"),
    Suggestion(Path("", <<>>), 2, "s1"),
    Suggestion(Path("", <<"Main.java">>), 3, "s2") }

SuggestionsUpTo(n) == UNION {[1..k -> Suggestions] : k \in 0..n}

\* Direct call: createInlineReview(context, summaryBody, comments, changedFiles)
\* with the arguments under evaluation.
StartResolve(w) ==
  /\ CanStart(w)
  /\ input.fn = "createInlineReview"
  /\ CallInlineReview(w, "summary", input.suggestions, input.files, "idle", "idle")
  /\ started' = started + 1
  /\ UNCHANGED <<events, queue, octokitCache, ai, input, output, pool, pullBody, comments, nextId, reviews,
                 commits, branch, pushed, job, log, failures>>

InitResolve ==
  /\ \E suggestions \in SuggestionsUpTo(MaxSuggestions) : \E files \in FileLists :
       input = [fn |-> "createInlineReview", suggestions |-> suggestions,
                files |-> files]
  /\ commits = CommitsWith(input.files)
  /\ InitQuiet

NextResolve ==
  \E w \in Workers :
    \/ StartResolve(w)
    \/ createInlineReview_get(w)
    \/ createInlineReview_list(w)
    \/ createInlineReview_create(w)

SpecResolve == InitResolve /\ [][NextResolve]_vars

\* Right-side lines findClosestReviewLine is given: the ascending list of a
\* few of these lines, which lie 1, 2, 20, 21 and 40 apart.
ReviewLines == {1, 2, 4, 24, 25, 44}
RightLineLists ==
  {SortedSeq(S) : S \in {T \in SUBSET ReviewLines : Cardinality(T) <= MaxRightLines}}

\* Lines a suggestion may name, from below the file to beyond the last line.
TargetLines == (0 - 1)..47

\* createInlineReview resolves the line of one suggestion.
ResolveLine ==
  /\ input.fn = "findClosestReviewLine"
  /\ output = NoValue
  /\ output' = [fn |-> "findClosestReviewLine",
                line |-> findClosestReviewLine(input.targetLine, input.rightLines)]
  /\ UNCHANGED <<events, queue, octokitCache, ai, input, pool, pullBody, comments, nextId, reviews, commits,
                 branch, pushed, pc, ret, onThrow, loc, job, log, started,
                 failures>>

InitClosest ==
  /\ \E targetLine \in TargetLines : \E rightLines \in RightLineLists :
       input = [fn |-> "findClosestReviewLine", targetLine |-> targetLine,
                rightLines |-> rightLines]
  /\ commits = InitialCommits
  /\ InitQuiet

NextClosest == ResolveLine

SpecClosest == InitClosest /\ [][NextClosest]_vars

\* Paths of suggestions: up to MaxPathSegs of these segments behind nothing,
\* "./" or "/"; with no segment the path is empty once normalized.
Segments == {"src", "lib", "test", "Main.java", "MainTest.java"}
RequestedPaths ==
  {Path(lead, segs) :
     lead \in {"", "./", "/"},
     segs \in UNION {[1..n -> Segments] : n \in 0..MaxPathSegs}}

\* Paths of changed files, and the lists of up to MaxFiles different ones.
FilePaths ==
  { MainJava, LibPath, TestPath, Path("", <<"Main.java">>),
    Path("", <<"src", "test", "Main.java">>) }
ChangedPathLists ==
  {fs \in UNION {[1..n -> FilePaths] : n \in 0..MaxFiles} :
     \A i \in 1..Len(fs) : \A j \in 1..Len(fs) : i # j => fs[i] # fs[j]}

\* createInlineReview resolves the path of one suggestion.
ResolvePath ==
  /\ input.fn = "resolvePathForInlineComment"
  /\ output = NoValue
  /\ LET indexes == buildFileLineIndexes(input.files)
         file == resolvePathForInlineComment(input.path, indexes)
     IN  output' = [fn |-> "resolvePathForInlineComment",
                    path |-> IF file = 0 THEN Path(Null, <<>>) ELSE indexes[file].path]
  /\ UNCHANGED <<events, queue, octokitCache, ai, input, pool, pullBody, comments, nextId, reviews, commits,
                 branch, pushed, pc, ret, onThrow, loc, job, log, started,
                 failures>>

InitPath ==
  /\ \E path \in RequestedPaths : \E paths \in ChangedPathLists :
       input = [fn |-> "resolvePathForInlineComment", path |-> path,
                files |-> [i \in 1..Len(paths) |->
                             [path |-> paths[i], patch |-> MainPatch]]]
  /\ commits = InitialCommits
  /\ InitQuiet

NextPath == ResolvePath

SpecPath == InitPath /\ [][NextPath]_vars

\* ------------------------------------------------ ReviewGenerationPipeline
\* An environment variable that is not set.
Unset == <<>>

\* The values of an environment variable: unset, or <<n>> for the text of n.
\* toPositiveInt keeps a number above zero and replaces everything else,
\* zero included, by the fallback.
toPositiveInt(value, fallback) ==
  IF value # Unset /\ value[1] > 0 THEN value[1] ELSE fallback

\* The provider's fields set by its constructor from the environment.
maxRetries == toPositiveInt(input.GEMINI_MAX_RETRIES, 2)

rateLimitRetries == toPositiveInt(input.GEMINI_RATE_LIMIT_RETRIES, 1)

\* generateReview's fallbackModel: null when it is the primary model.
fallbackModel ==
  IF input.GEMINI_FALLBACK_MODEL # input.model
    THEN input.GEMINI_FALLBACK_MODEL ELSE Null

\* The entries a response's inline_suggestions can hold.  A field holds a
\* string, or "<number>" for a value that is no string, or "<undefined>".
NullEntry == [kind |-> "null", path |-> "<undefined>", line |-> 0, body |-> "<undefined>"]

Entry(path, line, body) ==
  [kind |-> "object", path |-> path, line |-> line, body |-> body]

\* The inline_suggestions of the responses: none; two valid entries around
\* one with a blank body; an entry without a path and one with line 0 before
\* a valid one; a null entry; an entry whose path is a number.
EntryLists ==
  { <<>>,
    <<Entry("Main.java", 3, "use a set"), Entry("Main.java", 5, "  "),
      Entry(" Main.java ", 7, "close the reader")>>,
    <<Entry("<undefined>", 3, "use a set"), Entry("Main.java", 0, "use a set"),
      Entry("Main.java", 3, "use a set")>>,
    <<NullEntry>>,
    <<Entry("Main.java", 3, "use a set"), Entry("<number>", 3, "use a set")>> }

\* item.path?.trim() and item.body?.trim(): reading a field of null, and
\* calling trim on a value that has none, raise a TypeError.
TrimThrows(item) ==
  \/ item.kind = "null"
  \/ item.path = "<number>"
  \/ item.body = "<number>"

\* String.prototype.trim on the strings of the entries.
Trim(s) ==
  CASE s = " Main.java " -> "Main.java"
    [] s = "  " -> ""
    [] OTHER -> s

\* The test of normalizeInline's loop that keeps an entry.
IsKept(item) ==
  /\ Trim(item.path) \notin {"", "<undefined>"}
  /\ Trim(item.body) \notin {"", "<undefined>"}
  /\ item.line > 0

\* The suggestion normalizeInline pushes for a kept entry.
InlineSuggestion(item) ==
  [path |-> Trim(item.path), line |-> item.line, body |-> Trim(item.body)]

RECURSIVE KeptFrom(_, _)
KeptFrom(items, i) ==
  IF i > Len(items) THEN <<>>
  ELSE LET rest == KeptFrom(items, i + 1)
       IN IF IsKept(items[i]) THEN <<InlineSuggestion(items[i])>> \o rest
          ELSE rest

\* normalizeInline: the kept entries in order, unless an entry throws.
normalizeInline(items) ==
  IF \E i \in 1..Len(items) : TrimThrows(items[i])
    THEN [threw |-> TRUE, results |-> <<>>]
    ELSE [threw |-> FALSE, results |-> KeptFrom(items, 1)]

\* The texts a response can carry: text that is no JSON of the review shape,
\* or a review whose answer_code is code or the marker of unavailable code.
Malformed == [shape |-> "malformed", answer |-> "none", entries |-> <<>>]

RawTexts ==
  {Malformed} \cup
  [shape : {"review"}, answer : {"code", "unavailable"}, entries : EntryLists]

\* What parseResponse returns for a text it cannot parse: null.
NoResponse == [answer_code |-> "none", inline_suggestions |-> <<>>]

\* parseResponse: the parsed object, or null.
parseResponse(raw) ==
  IF raw.shape = "review"
    THEN [answer_code |-> raw.answer, inline_suggestions |-> raw.entries]
    ELSE NoResponse

\* parseAnswerCodeOnly: the answer_code of the text when it is a string that
\* is not blank, the marker of unavailable code included.
parseAnswerCodeOnly(raw) ==
  IF raw.shape = "review" THEN raw.answer ELSE Null

\* What GeminiProvider.request resolves to: a timeout, another thrown error, a
\* status outside 2xx and an empty response are all "failed".
RequestResults ==
  {[kind |-> "rate_limited", raw |-> Malformed],
   [kind |-> "failed", raw |-> Malformed]} \cup
  [kind : {"ok"}, raw : RawTexts]

\* The next request generateReview awaits.
Awaiting(a, model, purpose, prompt) ==
  [a EXCEPT !.pc = "request", !.model = model, !.purpose = purpose,
            !.prompt = prompt, !.attempt = 0]

\* generateReview settles: resolved with null or a review, or rejected.
Settled(a, result, inline) ==
  [a EXCEPT !.pc = "settled", !.result = result, !.inlineSuggestions = inline]

\* The object finalizeResult returns, built after the answer code is known.
ReviewResult(a, parsed) ==
  LET inline == normalizeInline(parsed.inline_suggestions)
  IN IF inline.threw
       THEN Settled([a EXCEPT !.parsed = parsed], "threw", <<>>)
       ELSE Settled([a EXCEPT !.parsed = parsed], "review", inline.results)

\* finalizeResult up to its first await.
finalizeResult(a, parsed) ==
  IF parsed.answer_code = "unavailable"
    THEN Awaiting([a EXCEPT !.parsed = parsed], a.model, "answer", a.prompt)
    ELSE ReviewResult(a, parsed)

\* The statements after the primary loop, and the head of the fallback loop.
AfterPrimary(a) ==
  IF fallbackModel = Null \/ ~a.primaryHadTransportFailure
    THEN Settled(a, "null", <<>>)
    ELSE Awaiting([a EXCEPT !.fallbackAttempts = 1], "fallback", "review", 1)

\* Mutant: the fallback loop does not count its attempts.
NextPrompt_Uncounted(a) ==
  IF a.model = "primary"
    THEN IF a.prompt < input.prompts
           THEN Awaiting(a, "primary", "review", a.prompt + 1)
           ELSE AfterPrimary(a)
    ELSE IF a.prompt < input.prompts
           THEN Awaiting([a EXCEPT !.fallbackAttempts = @ + 1],
                         "fallback", "review", a.prompt + 1)
           ELSE Settled(a, "null", <<>>)

\* The end of one iteration of a prompt loop that did not return.
NextPrompt(a) ==
  IF a.model = "primary"
    THEN IF a.prompt < input.prompts
           THEN Awaiting(a, "primary", "review", a.prompt + 1)
           ELSE AfterPrimary(a)
    ELSE IF a.prompt < input.prompts /\ a.fallbackAttempts < maxRetries
           THEN Awaiting([a EXCEPT !.fallbackAttempts = @ + 1],
                         "fallback", "review", a.prompt + 1)
           ELSE Settled(a, "null", <<>>)

\* Mutant: a response that cannot be parsed is not repaired.
AfterRequest_NoRepair(a, result) ==
  CASE a.purpose = "review" ->
         IF result.kind = "rate_limited" THEN Settled(a, "null", <<>>)
         ELSE IF result.kind = "failed"
           THEN NextPrompt([a EXCEPT !.primaryHadTransportFailure =
                                        @ \/ a.model = "primary"])
         ELSE IF parseResponse(result.raw) # NoResponse
           THEN finalizeResult(a, parseResponse(result.raw))
         ELSE NextPrompt(a)
    [] a.purpose = "repair" -> NextPrompt(a)
    [] a.purpose = "answer" -> ReviewResult(a, a.parsed)

\* What generateReview does with the result of requestWithRateLimitRetry.
AfterRequest(a, result) ==
  CASE a.purpose = "review" ->
         IF result.kind = "rate_limited" THEN Settled(a, "null", <<>>)
         ELSE IF result.kind = "failed"
           THEN NextPrompt([a EXCEPT !.primaryHadTransportFailure =
                                        @ \/ a.model = "primary"])
         ELSE IF parseResponse(result.raw) # NoResponse
           THEN finalizeResult(a, parseResponse(result.raw))
         ELSE Awaiting(a, a.model, "repair", a.prompt)
    [] a.purpose = "repair" ->
         IF result.kind = "ok" /\ parseResponse(result.raw) # NoResponse
           THEN finalizeResult(a, parseResponse(result.raw))
           ELSE NextPrompt(a)
    [] a.purpose = "answer" ->
         IF result.kind = "ok" /\ parseAnswerCodeOnly(result.raw) # Null
           THEN ReviewResult(a, [a.parsed EXCEPT
                                   !.answer_code = parseAnswerCodeOnly(result.raw)])
           ELSE ReviewResult(a, a.parsed)

\* The requests sent so far, counted per model, with the new one.
Sent(a, result) ==
  [a EXCEPT !.sent[a.model] = @ + 1,
            !.first = IF a.model = "primary" /\ a.sent["primary"] = 0
                        THEN result.kind ELSE @,
            !.primaryResponded = @ \/ (a.model = "primary" /\ result.kind = "ok"),
            !.primaryLimited =
              @ \/ (a.model = "primary" /\ result.kind = "rate_limited")]

\* Whether requestWithRateLimitRetry returns this result to its caller.
Returned(a, result) ==
  ~(result.kind = "rate_limited" /\ a.attempt < rateLimitRetries)

\* Whether a response can be parsed as a review.
Unparsable(result) == result.kind = "ok" /\ parseResponse(result.raw) = NoResponse

\* The history of the call, kept for the properties: what the request just
\* answered was (before), what it was answered with, and what generateReview
\* goes on to (after).
Observed(before, result, after) ==
  LET returned == Returned(before, result)
      firstSend == before.attempt = 0
      main == before.purpose = "review" /\ firstSend
      calls(purpose) ==
        returned /\ after.pc = "request" /\ after.purpose = purpose
      parsedNow ==
        /\ returned /\ before.purpose \in {"review", "repair"}
        /\ result.kind = "ok" /\ ~Unparsable(result)
  IN [after EXCEPT
        !.endedLimited =
          before.endedLimited
            \/ (/\ returned /\ result.kind = "rate_limited"
                /\ before.model = "primary"
                /\ before.purpose \in {"review", "repair"}),
        !.sentAfterLimited = before.sentAfterLimited \/ before.endedLimited,
        !.unparsed =
          before.unparsed
            + (IF returned /\ before.purpose = "review" /\ Unparsable(result)
                 THEN 1 ELSE 0),
        !.repairs = before.repairs + (IF calls("repair") THEN 1 ELSE 0),
        !.repairMisplaced =
          before.repairMisplaced
            \/ (/\ calls("repair")
                /\ \/ after.model # before.model
                   \/ before.purpose # "review"
                   \/ ~Unparsable(result)),
        !.repairFailed =
          before.repairFailed
            \/ (/\ returned /\ before.purpose = "repair"
                /\ (result.kind # "ok" \/ Unparsable(result))),
        !.sentAfterRepairFailed =
          before.sentAfterRepairFailed \/ before.repairFailed,
        !.mains =
          IF main THEN before.mains \cup {<<before.model, before.prompt>>}
          ELSE before.mains,
        !.mainRepeated =
          before.mainRepeated
            \/ (main /\ <<before.model, before.prompt>> \in before.mains),
        !.succeeded = before.succeeded \/ parsedNow,
        !.mainAfterSuccess =
          before.mainAfterSuccess \/ (main /\ before.succeeded),
        !.sentinel =
          before.sentinel
            \/ (parsedNow /\ parseResponse(result.raw).answer_code = "unavailable"),
        !.answers = before.answers + (IF calls("answer") THEN 1 ELSE 0),
        !.answerMisplaced =
          before.answerMisplaced
            \/ (calls("answer") /\ after.model # before.model),
        !.recovered =
          IF returned /\ before.purpose = "answer"
            THEN IF result.kind = "ok" THEN parseAnswerCodeOnly(result.raw)
                 ELSE Null
            ELSE before.recovered]

\* generateReview up to its first request.
generateReview ==
  /\ ai.pc = "idle"
  /\ output = NoValue
  /\ ai' = [pc |-> "request", model |-> "primary", purpose |-> "review",
            prompt |-> 1, attempt |-> 0,
            primaryHadTransportFailure |-> FALSE, fallbackAttempts |-> 0,
            parsed |-> NoResponse,
            result |-> "none", inlineSuggestions |-> <<>>,
            sent |-> [m \in {"primary", "fallback"} |-> 0],
            first |-> "none", primaryResponded |-> FALSE,
            primaryLimited |-> FALSE,
            endedLimited |-> FALSE, sentAfterLimited |-> FALSE,
            unparsed |-> 0, repairs |-> 0, repairMisplaced |-> FALSE,
            repairFailed |-> FALSE, sentAfterRepairFailed |-> FALSE,
            mains |-> {}, mainRepeated |-> FALSE,
            succeeded |-> FALSE, mainAfterSuccess |-> FALSE,
            sentinel |-> FALSE, answers |-> 0, answerMisplaced |-> FALSE,
            recovered |-> "none"]
  /\ UNCHANGED <<events, queue, octokitCache, input, output, pool, comments, nextId, reviews, commits,
                 branch, pushed, pullBody, pc, ret, onThrow, loc, job, log,
                 started, failures>>

\* One request of requestWithRateLimitRetry and, when it does not send the
\* request again, what the caller does with the result.
requestWithRateLimitRetry ==
  /\ ai.pc = "request"
  /\ \E result \in RequestResults :
       LET a == Sent(ai, result)
       IN ai' = Observed(a, result,
                  IF result.kind = "rate_limited" /\ a.attempt < rateLimitRetries
                    THEN [a EXCEPT !.attempt = @ + 1]
                    ELSE AfterRequest(a, result))
  /\ UNCHANGED <<events, queue, octokitCache, input, output, pool, comments, nextId, reviews, commits,
                 branch, pushed, pullBody, pc, ret, onThrow, loc, job, log,
                 started, failures>>

\* The caller receives what generateReview settled with.
generateReview_settle ==
  /\ ai.pc = "settled"
  /\ output = NoValue
  /\ output' = [fn |-> "generateReview", result |-> ai.result,
                parsed |-> ai.parsed,
                inlineSuggestions |-> ai.inlineSuggestions]
  /\ UNCHANGED <<events, queue, octokitCache, ai, input, pool, comments, nextId, reviews, commits, branch,
                 pushed, pullBody, pc, ret, onThrow, loc, job, log, started,
                 failures>>

InitProvider ==
  /\ InitQuiet
  /\ commits = InitialCommits
  /\ input \in [fn : {"generateReview"},
                prompts : {1, 2},
                model : {"gemini-2.5-flash"},
                GEMINI_FALLBACK_MODEL : {"gemini-2.5-flash", "gemini-2.0-flash"},
                GEMINI_MAX_RETRIES : {Unset, <<1>>},
                GEMINI_RATE_LIMIT_RETRIES : {Unset, <<0>>, <<2>>}]

NextProvider ==
  \/ generateReview
  \/ requestWithRateLimitRetry
  \/ generateReview_settle

SpecProvider == InitProvider /\ [][NextProvider]_vars

\* ---------------------------------------------------- committed file contents
\* A file content as its characters: a letter or the newline character.
Newline == "\n"

TextContents == UNION {[1..n -> {"a", Newline}] : n \in 0..MaxContentLen}

\* content.endsWith("\n")
EndsWithNewline(content) == Len(content) > 0 /\ content[Len(content)] = Newline

\* The blob entry commitFilesToPrBranch hands to createTree: content: file.content.
commitFilesToPrBranch_blob(file) == file.content

\* The content createOrUpdateSourceFile hands to createOrUpdateFileContents.
createOrUpdateSourceFile_content(content) ==
  IF EndsWithNewline(content) THEN content ELSE Append(content, Newline)

\* commitFilesToPrBranch writes the file under evaluation to the branch.
WriteTreeBlob ==
  /\ input.fn = "commitFilesToPrBranch"
  /\ output = NoValue
  /\ output' = [fn |-> input.fn,
                content |-> commitFilesToPrBranch_blob(
                              [path |-> "Problem.java", content |-> input.content])]
  /\ UNCHANGED <<events, queue, octokitCache, ai, input, pool, pullBody, comments, nextId, reviews, commits,
                 branch, pushed, pc, ret, onThrow, loc, job, log, started,
                 failures>>

\* createOrUpdateSourceFile writes the content under evaluation to the branch.
WriteSourceFile ==
  /\ input.fn = "createOrUpdateSourceFile"
  /\ output = NoValue
  /\ output' = [fn |-> input.fn,
                content |-> createOrUpdateSourceFile_content(input.content)]
  /\ UNCHANGED <<events, queue, octokitCache, ai, input, pool, pullBody, comments, nextId, reviews, commits,
                 branch, pushed, pc, ret, onThrow, loc, job, log, started,
                 failures>>

InitContent ==
  /\ input \in [fn : {"commitFilesToPrBranch", "createOrUpdateSourceFile"},
                content : TextContents]
  /\ commits = InitialCommits
  /\ InitQuiet

NextContent == WriteTreeBlob \/ WriteSourceFile

SpecContent == InitContent /\ [][NextContent]_vars

\* ------------------------------------------------- the installation clients
\* octokitCache holds a promise per installation: of a client whose token is
\* valid or has expired since, or a rejected one.

\* getOctokitForInstallation: the cached promise, or a new one that
\* authenticates now and is stored whatever it settles with.
CachedPromise(installationId, authNow) ==
  IF octokitCache[installationId] # "none"
    THEN octokitCache[installationId]
    ELSE IF authNow = "ok" THEN "client" ELSE "rejected"

\* How processJob ends with what the promise settles with: the await throws
\* for a rejected promise, and GitHub answers the first request of the job
\* with 401 for an expired token.
JobOutcome(promise) == IF promise = "client" THEN "completed" ELSE "failed"

\* handler: one record is processed; processJob awaits
\* getOctokitForInstallation(job.installationId) and runs the job.
processJob_authenticated ==
  /\ started < MaxJobs
  /\ \E installationId \in Installations, authNow \in {"ok", "fails"} :
       LET promise == CachedPromise(installationId, authNow)
       IN  /\ octokitCache' = [octokitCache EXCEPT ![installationId] = promise]
           /\ log' = Append(log,
                       [op |-> "processJob", w |-> "w1",
                        args |-> [installationId |-> installationId,
                                  authNow |-> authNow,
                                  cached |-> octokitCache[installationId]],
                        result |-> JobOutcome(promise)])
  /\ started' = started + 1
  /\ UNCHANGED <<events, queue, ai, input, output, pool, pullBody, comments, nextId, reviews,
                 commits, branch, pushed, pc, ret, onThrow, loc, job, failures>>

\* The installation token of a cached client expires (one hour after it was
\* issued).
TokenExpires ==
  /\ \E installationId \in Installations :
       /\ octokitCache[installationId] = "client"
       /\ octokitCache' = [octokitCache EXCEPT ![installationId] = "expired"]
  /\ UNCHANGED <<events, queue, ai, input, output, pool, pullBody, comments, nextId, reviews,
                 commits, branch, pushed, pc, ret, onThrow, loc, job, log,
                 started, failures>>

InitAuth ==
  /\ input = NoValue
  /\ commits = InitialCommits
  /\ InitQuiet

NextAuth == processJob_authenticated \/ TokenExpires

SpecAuth == InitAuth /\ [][NextAuth]_vars

\* ------------------------------------------------ the ledger, quoted markers

\* The pull request already has the bot's ai-review comment, and the summary
\* in it quotes the template-check marker; n comments by the author precede it.
InitLedgerFrame ==
  /\ pool = {"w1"}
  /\ \E n \in {0, 1} :
       /\ comments = Append(Backlog(n),
                       [id |-> n + 1, bot |-> TRUE,
                        body |-> Body(REVIEW_COMMENT_MARKER, "quotes-template")])
       /\ nextId = n + 2
  /\ InitCommon

SpecLedgerFrame == InitLedgerFrame /\ [][NextLedger]_vars

\* ------------------------------------------- the job, a long conversation

\* The pull request has about PerPage comments by its author, then the
\* template notice of an earlier job; its description has been completed since.
InitJobLong ==
  /\ pool = {"w1"}
  /\ reviews = <<>>
  /\ pullBody = "complete"
  /\ \E n \in {PerPage - 1, PerPage} :
       /\ comments = Append(Backlog(n),
                       [id |-> n + 1, bot |-> TRUE,
                        body |-> Body(TEMPLATE_COMMENT_MARKER, "guide")])
       /\ nextId = n + 2
  /\ InitRest

SpecJobLong == InitJobLong /\ [][NextJob]_vars

\* ------------------------------------------------------- the SQS handler

\* The text of a record's body: no JSON, the JSON null, or a JSON object.
\* A field that is missing (or 0, or "") is falsy.
Payload(v, type, installationId, owner, repo) ==
  [json |-> "object", v |-> v, type |-> type, installationId |-> installationId,
   owner |-> owner, repo |-> repo]

NotJson == [Payload(0, "", 0, "", "") EXCEPT !.json = "none"]

JsonNull == [Payload(0, "", 0, "", "") EXCEPT !.json = "null"]

\* Bodies of the records: the two jobs the ingress enqueues, a job of another
\* type, a later version, a job without installation, without repo, and text
\* that is no job.
RecordBodies ==
  { Payload(1, "pull_request", 1, "o", "r"),
    Payload(1, "push", 1, "o", "r"),
    Payload(1, "unsupported", 1, "o", "r"),
    Payload(2, "push", 1, "o", "r"),
    Payload(1, "push", 0, "o", "r"),
    Payload(1, "pull_request", 1, "o", ""),
    JsonNull,
    NotJson }

\* Mutant: the version of the payload is not looked at.
parseWorkerJob_AnyVersion(body) ==
  IF body.json = "none" THEN Null
  ELSE IF \/ body.json = "null"
          \/ body.type = "" \/ body.installationId = 0
          \/ body.owner = "" \/ body.repo = ""
    THEN Null
  ELSE body.type

\* parseWorkerJob: JSON.parse throws on text that is no JSON, and the check
\* throws "Invalid worker job payload"; Null stands for the throw, and the
\* job is known by its type otherwise.
parseWorkerJob(body) ==
  IF body.json = "none" THEN Null
  ELSE IF \/ body.json = "null" \/ body.v # 1
          \/ body.type = "" \/ body.installationId = 0
          \/ body.owner = "" \/ body.repo = ""
    THEN Null
  ELSE body.type

\* How processJob can end for a job: a job of another type always throws; a
\* push or pull_request job returns, or throws (authentication, a request of
\* a handler outside its try block).
ProcessOutcomes(type) ==
  IF type \in {"push", "pull_request"} THEN {"returned", "threw"} ELSE {"threw"}

\* What the handler has done with a record.
Handled(record, result) ==
  [op |-> "record", w |-> "w1", args |-> record, result |-> result]

\* handler: the next record of the loop, const job = parseWorkerJob(record.body)
handler_parseWorkerJob ==
  /\ input.fn = "handler"
  /\ output = NoValue
  /\ pc["w1"] = "idle"
  /\ started < Len(input.Records)
  /\ LET record == input.Records[started + 1]
         type == parseWorkerJob(record.body)
     IN  IF type = Null
         THEN /\ failures' = failures \cup {record.messageId}
              /\ log' = Append(log, Handled(record, "parse_threw"))
              /\ UNCHANGED <<pc, job>>
         ELSE /\ job' = [job EXCEPT !["w1"] =
                           [NoJob EXCEPT !.type = type,
                                         !.messageId = record.messageId]]
              /\ pc' = [pc EXCEPT !["w1"] = "handler_processJob"]
              /\ UNCHANGED <<failures, log>>
  /\ started' = started + 1
  /\ UNCHANGED <<events, queue, octokitCache, ai, input, output, pool, pullBody, comments,
                 nextId, reviews, commits, branch, pushed, ret, onThrow, loc>>

\* handler: await processJob(job), and the catch
handler_processJob ==
  /\ pc["w1"] = "handler_processJob"
  /\ \E outcome \in ProcessOutcomes(job["w1"].type) :
       /\ failures' = IF outcome = "threw"
                        THEN failures \cup {job["w1"].messageId}
                        ELSE failures
       /\ log' = Append(log, Handled(input.Records[started], outcome))
  /\ pc' = [pc EXCEPT !["w1"] = "idle"]
  /\ job' = [job EXCEPT !["w1"] = NoJob]
  /\ UNCHANGED <<events, queue, octokitCache, ai, input, output, pool, pullBody, comments,
                 nextId, reviews, commits, branch, pushed, ret, onThrow, loc,
                 started>>

\* handler: return { batchItemFailures: failures }
handler_return ==
  /\ input.fn = "handler"
  /\ output = NoValue
  /\ pc["w1"] = "idle"
  /\ started = Len(input.Records)
  /\ output' = [fn |-> "handler", batchItemFailures |-> failures]
  /\ UNCHANGED <<events, queue, octokitCache, ai, input, pool, pullBody, comments, nextId,
                 reviews, commits, branch, pushed, pc, ret, onThrow, loc, job,
                 log, started, failures>>

\* An event of up to MaxRecords records; SQS numbers the messages of a batch.
InitHandler ==
  /\ \E n \in 0..MaxRecords : \E bodies \in [1..n -> RecordBodies] :
       input = [fn |-> "handler",
                Records |-> [i \in 1..n |-> [messageId |-> i, body |-> bodies[i]]]]
  /\ commits = InitialCommits
  /\ InitQuiet

NextHandler ==
  \/ handler_parseWorkerJob
  \/ handler_processJob
  \/ handler_return

SpecHandler == InitHandler /\ [][NextHandler]_vars

\* ------------------------------------------------------ the webhook ingress

\* A webhook delivery: the event, its action, the type of its sender and,
\* for a push, whether the ref is a branch.
Event(name, action, sender, branchRef) ==
  [name |-> name, action |-> action, sender |-> sender, branchRef |-> branchRef]

\* The deliveries GitHub sends for a push to the pull request's branch.
PushDeliveries(sender) ==
  << Event("push", "", sender, TRUE),
     Event("pull_request", "synchronize", sender, TRUE) >>

\* What the author can do: push to the branch, push a tag, open the pull
\* request, edit its description.
UserDeliveries ==
  { <<Event("push", "", "User", FALSE)>>,
    <<Event("pull_request", "opened", "User", TRUE)>>,
    <<Event("pull_request", "edited", "User", TRUE)>> }

UserActs == Cardinality({i \in 1..Len(log) : log[i].op = "user"})

Did(op, args, result) == [op |-> op, w |-> "w1", args |-> args, result |-> result]

\* The author pushes a commit to the branch of the pull request.
AuthorPushes ==
  /\ UserActs < MaxUserEvents
  /\ commits' = Append(commits,
                  [parent |-> branch,
                   tree |-> [commits[branch].tree EXCEPT
                               !["Main.java"] = IF @ = "x" THEN "y" ELSE "x"],
                   bot |-> FALSE, files |-> commits[branch].files])
  /\ branch' = Len(commits) + 1
  /\ events' = events \o PushDeliveries("User")
  /\ log' = Append(log, Did("user", PushDeliveries("User"), "sent"))
  /\ UNCHANGED <<octokitCache, ai, queue, input, output, pool, pullBody,
                 comments, nextId, reviews, pushed, pc, ret, onThrow, loc, job,
                 started, failures>>

\* The author pushes a tag, opens the pull request or edits its description.
AuthorActs ==
  /\ UserActs < MaxUserEvents
  /\ \E deliveries \in UserDeliveries :
       /\ events' = events \o deliveries
       /\ log' = Append(log, Did("user", deliveries, "sent"))
  /\ UNCHANGED <<octokitCache, ai, queue, input, output, pool, pullBody,
                 comments, nextId, reviews, commits, branch, pushed, pc, ret,
                 onThrow, loc, job, started, failures>>

\* Mutant: the push handler without its first line.
onPush_Enqueues_AnySender(event) == event.branchRef

\* app.on("push"): whether the handler reaches enqueueWorkerJob.  The app is
\* installed, so payload.installation.id is there.
onPush_Enqueues(event) == event.sender # "Bot" /\ event.branchRef

\* app.on(["pull_request.opened", ".edited", ".synchronize"])
onPullRequest_Enqueues(event) == event.sender # "Bot"

\* The job a handler enqueues for a delivery.
WorkerJob(event) ==
  [type |-> event.name, action |-> event.action, senderType |-> event.sender]

\* Probot hands the next delivery to its handler.
ingress ==
  /\ events # <<>>
  /\ LET event == Head(events)
         enqueues == IF event.name = "push" THEN onPush_Enqueues(event)
                     ELSE onPullRequest_Enqueues(event)
     IN  /\ queue' = IF enqueues THEN Append(queue, WorkerJob(event)) ELSE queue
         /\ log' = Append(log, Did("delivery", event,
                                   IF enqueues THEN "enqueued" ELSE "ignored"))
  /\ events' = Tail(events)
  /\ UNCHANGED <<octokitCache, ai, input, output, pool, pullBody, comments,
                 nextId, reviews, commits, branch, pushed, pc, ret, onThrow,
                 loc, job, started, failures>>

\* The files handlePullRequestJob commits: the problem page and the solution
\* read from the branch.
SyncPlan(tree) ==
  LET read == getTextFileContent(tree, "Main.java", FALSE)
  IN  << File("README.md", ProblemMarkdown),
         File("Problem.java", IF read = Null THEN FallbackTemplate ELSE read) >>

\* The worker handles the next job of the queue.  A pull_request job commits
\* the planned files when the branch does not hold them yet, and GitHub sends
\* the deliveries of that push with the app's bot as sender; comments and
\* reviews cause no delivery the app listens to.
worker ==
  /\ queue # <<>>
  /\ LET next == Head(queue)
         tip == commits[branch].tree
         tree == createTree(tip, SyncPlan(tip))
         skipped == \/ next.type # "pull_request"
                    \/ next.senderType = "Bot" /\ next.action # "opened"
     IN  IF skipped \/ tree = tip
         THEN /\ log' = Append(log, Did("job", next, "no_commit"))
              /\ UNCHANGED <<commits, branch, events>>
         ELSE /\ commits' = Append(commits,
                              [parent |-> branch, tree |-> tree, bot |-> TRUE,
                               files |-> commits[branch].files])
              /\ branch' = Len(commits) + 1
              /\ events' = events \o PushDeliveries("Bot")
              /\ log' = Append(log, Did("job", next, "committed"))
  /\ queue' = Tail(queue)
  /\ started' = started + 1
  /\ UNCHANGED <<octokitCache, ai, input, output, pool, pullBody, comments,
                 nextId, reviews, pushed, pc, ret, onThrow, loc, job, failures>>

InitIngress ==
  /\ input = NoValue
  /\ commits = InitialCommits
  /\ InitQuiet

NextIngress ==
  \/ AuthorPushes
  \/ AuthorActs
  \/ ingress
  \/ worker

SpecIngress == InitIngress /\ [][NextIngress]_vars

\* Probot handles every delivery and the Lambda worker every queued job.
SpecIngressLive ==
  SpecIngress /\ WF_vars(ingress) /\ WF_vars(worker)

\* ------------------------------------------------------- claims: the ledger

Idle == \A w \in pool : pc[w] = "idle"

\* The last two operations were upsertIssueComment calls that returned, one
\* after the other, with the same marker and different bodies.
TwoUpsertsInSequence ==
  /\ Idle
  /\ Len(log) >= 2
  /\ LET a == log[Len(log) - 1]
         b == log[Len(log)]
     IN  /\ a.op = "upsertIssueComment" /\ b.op = "upsertIssueComment"
         /\ a.result # "threw" /\ b.result # "threw"
         /\ a.args.marker = b.args.marker
         /\ a.args.body # b.args.body

\* C1: after two upsertIssueComment calls in sequence with the same marker and
\* different bodies, exactly one bot-authored comment carries the marker, and
\* its body is the marker line followed by the second call's body.
C1_UpsertTwiceLeavesOne ==
  TwoUpsertsInSequence =>
    LET b == log[Len(log)]
    IN  /\ Cardinality(BotComments(b.args.marker)) = 1
        /\ \A i \in BotComments(b.args.marker) :
             comments[i].body = Body(b.args.marker, b.args.body)

\* C2: in every reachable state, also while two workers upsert the same marker
\* at once, at most one bot-authored comment carries a given marker.
C2_AtMostOneCommentPerMarker ==
  \A marker \in Markers : Cardinality(BotComments(marker)) <= 1

\* ------------------------------------------------ claims: the inline review

\* Positions of the bot's reviews on a commit that carry the inline marker.
BotReviewsAt(sha) ==
  {i \in 1..Len(reviews) :
     /\ reviews[i].bot
     /\ reviews[i].commit_id = sha
     /\ reviews[i].body.first = LINE_REVIEW_MARKER}

\* createInlineReview calls that found a suggestion to place in the diff of
\* the head they read (no push came between the caller's loading of the
\* changed files and the call's pulls.get), in log order.
PlacedCalls ==
  {i \in 1..Len(log) : /\ log[i].op = "createInlineReview"
                       /\ log[i].args.valid # <<>>
                       /\ log[i].args.files = PullFilesAt(log[i].args.head)}

\* C3: of two createInlineReview calls in sequence at the same head SHA, each
\* with a resolvable suggestion, the second returns already_posted and sends
\* no createReview, and exactly one marked bot review is on that commit.
C3_SecondReviewAlreadyPosted ==
  \A i \in PlacedCalls, j \in PlacedCalls :
    (i < j /\ log[i].args.head = log[j].args.head) =>
      /\ log[j].result = "already_posted"
      /\ log[j].args.writes = <<>>
      /\ Cardinality(BotReviewsAt(log[j].args.head)) = 1

C3_Witness ==
  \E i \in PlacedCalls, j \in PlacedCalls :
    /\ i < j
    /\ log[i].args.head = log[j].args.head
    /\ log[i].result = "posted"
    /\ log[j].result = "already_posted"

\* C4: in every reachable state, also while two createInlineReview calls run
\* at once on the same head, at most one marked bot review is on a commit.
C4_AtMostOneReviewPerHead ==
  \A sha \in 1..Len(commits) : Cardinality(BotReviewsAt(sha)) <= 1

\* C5: a marked bot review on another commit suppresses nothing: once a call
\* with a resolvable suggestion has returned, a marked bot review is on the
\* head it read (already_posted only when one was there), and the review a
\* call posts is on that head with the comments it resolved.
C5_ReviewAtOtherHeadNotSuppressed ==
  \A i \in PlacedCalls :
    /\ log[i].result \in {"posted", "already_posted"}
    /\ BotReviewsAt(log[i].args.head) # {}
    /\ log[i].result = "posted" =>
         \E r \in BotReviewsAt(log[i].args.head) :
           reviews[r].comments = log[i].args.valid

C5_Witness ==
  \E i \in PlacedCalls, j \in PlacedCalls :
    /\ i < j
    /\ log[i].args.head # log[j].args.head
    /\ log[i].result = "posted"
    /\ log[j].result = "posted"
    /\ BotReviewsAt(log[i].args.head) # {}
    /\ BotReviewsAt(log[j].args.head) # {}

\* ------------------------------------------------- claims: the branch commit

CommitCalls == {i \in 1..Len(log) : log[i].op = "commitFilesToPrBranch"}

\* Call j re-runs, right after call i applied it, the plan of call i: every
\* request of call j was served at the commit call i put the branch on, and
\* none of its content reads was rejected.
RerunOnUnchangedTip(i, j) ==
  /\ j = i + 1
  /\ log[i].result = "true"
  /\ log[j].args.plan = log[i].args.plan
  /\ log[j].args.seenTips = {log[i].args.newCommit}
  /\ ~log[j].args.rejectedReads

\* C7: for every plan, calling commitFilesToPrBranch again with the plan it
\* has just applied, on an unchanged tip, returns false and sends no
\* createTree, createCommit or updateRef.
C7_RerunWritesNothing ==
  \A i \in CommitCalls, j \in CommitCalls :
    RerunOnUnchangedTip(i, j) =>
      log[j].result = "false" /\ log[j].args.writes = <<>>

\* C8: no commit made by commitFilesToPrBranch has the tree of its parent,
\* whether the content reads found the file, found none or were rejected.
C8_NoEmptyCommit ==
  \A sha \in 1..Len(commits) :
    commits[sha].bot => commits[sha].tree # commits[commits[sha].parent].tree

\* A worker's updateRef request is answered in this step.
UpdateRefStep(w) == pc[w] = "commit_updateRef" /\ pc'[w] # "commit_updateRef"

UpdateRefRejected(w) ==
  /\ branch' = branch
  /\ log'[Len(log')].op = "commitFilesToPrBranch"
  /\ log'[Len(log')].w = w
  /\ log'[Len(log')].result = "threw"

PushedCommitKept == pushed # <<>> => IsAncestor(pushed[Len(pushed)], branch)

AllMarkers ==
  {TEMPLATE_COMMENT_MARKER, REVIEW_COMMENT_MARKER, FILE_REVIEW_MARKER}

\* Positions in the log of the records the handler went through.
JobRuns == {i \in 1..Len(log) : log[i].op = "processJob"}

\* Run j is a second processing of the pull_request job of run i: both
\* finished, nothing is in progress and nobody else touched the pull request.
SecondRun(i, j) ==
  /\ i < j
  /\ j = Len(log)
  /\ log[i].job.type = "pull_request"
  /\ log[j].job.type = "pull_request"
  /\ log[i].job.messageId = log[j].job.messageId
  /\ log[i].result = "completed"
  /\ log[j].result = "completed"
  /\ pushed = <<>>

\* C6: when the same pull_request job has been processed a second time after
\* the first run finished, with no outside change in between, the second run
\* made no commit on the branch, no marker has more than one bot comment and
\* the head commit has at most one inline-review review.
C6_RedeliveryChangesNothing ==
  \A i \in JobRuns : \A j \in JobRuns :
    SecondRun(i, j) =>
      /\ log[j].job.commitsMade = 0
      /\ \A marker \in AllMarkers : Cardinality(BotComments(marker)) <= 1
      /\ Cardinality(BotReviewsAt(branch)) <= 1

\* C10: a pull_request job in which the ref update was rejected ends as a
\* failure of the handler, with the message's id in batchItemFailures.
C10_RejectedRefUpdateIsReported ==
  \A i \in JobRuns :
    (log[i].job.type = "pull_request" /\ log[i].job.refRejected) =>
      /\ log[i].result = "failed"
      /\ log[i].job.messageId \in failures

\* ---------------------------------------------------- claims: the diff index

\* The patch is a sequence of hunk headers, '+' lines, '-' lines, context
\* lines and no-newline markers.
IsUnifiedDiff(patch) ==
  \A i \in 1..Len(patch) :
    patch[i].kind \in {"@@", "+", "+++", "-", "---", " ", "\\"}

\* C11: for every unified-diff patch, every line number returned by
\* parseAddedLinesFromPatch is also returned by parseRightSideLinesFromPatch.
C11_AddedLinesAreRightLines ==
  (output.fn = "parsePatch" /\ IsUnifiedDiff(input.patch)) =>
    Range(output.addedLines) \subseteq Range(output.rightLines)

\* Positions in the log of the createInlineReview calls that sent createReview.
ReviewRequests ==
  {i \in 1..Len(log) :
     /\ log[i].op = "createInlineReview"
     /\ "createReview" \in Range(log[i].args.writes)}

\* C12: every comment of a review createInlineReview creates (the comments it
\* sends with createReview) has the path of one of the given changed files and
\* a line that is among the rightLines of that file's patch.
C12_PostedCommentsOnRightLines ==
  \A i \in ReviewRequests :
    \A c \in 1..Len(log[i].args.valid) :
      \E f \in 1..Len(input.files) :
        /\ input.files[f].path = log[i].args.valid[c].path
        /\ log[i].args.valid[c].line
             \in Range(parseRightSideLinesFromPatch(input.files[f].patch))

\* A review was created with a comment that was moved from the suggested line
\* to the nearest line of the diff, under the changed file's own path.
C12_Witness ==
  /\ input.fn = "createInlineReview"
  /\ \E r \in 1..Len(reviews) :
       /\ reviews[r].bot
       /\ \E c \in 1..Len(reviews[r].comments) :
            \E s \in 1..Len(input.suggestions) :
              /\ reviews[r].comments[c].body = input.suggestions[s].body
              /\ reviews[r].comments[c].line # input.suggestions[s].line
              /\ reviews[r].comments[c].path # input.suggestions[s].path

\* C13: in every run of a pull_request job, also when the branch head moves
\* between loading the changed files and creating the review, each comment
\* sent with createReview is on a right-side line of its file's diff at the
\* commit_id sent with it.
C13_CommentsAddressableAtCommit ==
  \A i \in ReviewRequests :
    \A c \in 1..Len(log[i].args.valid) :
      Addressable(log[i].args.valid[c], log[i].args.head)

\* ------------------------------------------------- claims: the line resolver

\* C14: for every suggestion whose line is a member of the file's rightLines,
\* findClosestReviewLine returns that same line.
C14_MemberLineUnchanged ==
  (output.fn = "findClosestReviewLine"
     /\ input.targetLine \in Range(input.rightLines)) =>
    output.line = input.targetLine

\* A line among several right lines, and not the first, was resolved.
C14_Witness ==
  /\ output.fn = "findClosestReviewLine"
  /\ Len(input.rightLines) >= 2
  /\ input.targetLine \in Range(input.rightLines)
  /\ input.targetLine # input.rightLines[1]
  /\ output.line = input.targetLine

\* The distances from a line to the right lines.
Distances(targetLine, rightLines) ==
  {Abs(rightLines[i] - targetLine) : i \in 1..Len(rightLines)}

Least(S) == CHOOSE x \in S : \A y \in S : x <= y

\* C15: for a suggested line that is not in rightLines, findClosestReviewLine
\* returns the right line at the least distance, the smaller one of two at
\* the same distance, and returns no result exactly when the least distance
\* is greater than 20.
C15_NearestWithinTwenty ==
  (output.fn = "findClosestReviewLine"
     /\ input.targetLine >= 1
     /\ input.targetLine \notin Range(input.rightLines)) =>
    LET d == Distances(input.targetLine, input.rightLines)
    IN  IF d = {} \/ Least(d) > 20
        THEN output.line = 0
        ELSE output.line =
               Least({l \in Range(input.rightLines) :
                        Abs(l - input.targetLine) = Least(d)})

\* A line exactly 20 away from the only right lines at that distance, one on
\* each side, was resolved to the smaller of the two.
C15_Witness ==
  /\ output.fn = "findClosestReviewLine"
  /\ input.targetLine \notin Range(input.rightLines)
  /\ output.line = input.targetLine - 20
  /\ input.targetLine + 20 \in Range(input.rightLines)

\* Segments b is the end of segments a, behind a slash.
IsPathSuffix(b, a) ==
  /\ b # <<>>
  /\ Len(b) < Len(a)
  /\ \A k \in 1..Len(b) : b[k] = a[Len(a) - Len(b) + k]

NoFile == Path(Null, <<>>)

\* The file the four rules of the path resolution pick for a normalized
\* suggestion path among the changed files.
PickedFile(requested, files) ==
  LET all == 1..Len(files)
      exact == {i \in all : files[i].path.segs = requested}
      bySuffix == {i \in all : \/ IsPathSuffix(requested, files[i].path.segs)
                               \/ IsPathSuffix(files[i].path.segs, requested)}
      byName == {i \in all :
                   /\ requested # <<>>
                   /\ files[i].path.segs[Len(files[i].path.segs)]
                        = requested[Len(requested)]}
  IN  IF exact # {} THEN files[Least(exact)].path
      ELSE IF Cardinality(bySuffix) = 1 THEN files[Least(bySuffix)].path
      ELSE IF Cardinality(byName) = 1 THEN files[Least(byName)].path
      ELSE IF Len(files) = 1 THEN files[1].path
      ELSE NoFile

\* C16 as claimed: for every suggestion path and every list of changed files
\* resolvePathForInlineComment returns the exact match, else the only suffix
\* match, else the only file with the final segment, else the only changed
\* file whatever the suggestion's path is, else no file.
C16_FourRulesForEveryPath ==
  output.fn = "resolvePathForInlineComment" =>
    output.path = PickedFile(input.path.segs, input.files)

\* C16 as amended: a suggestion path that is empty once normalized resolves
\* to no file, also when exactly one file was changed; every other path
\* resolves by the four rules.
C16_FourRulesForNonEmptyPath ==
  output.fn = "resolvePathForInlineComment" =>
    output.path = IF input.path.segs = <<>> THEN NoFile
                  ELSE PickedFile(input.path.segs, input.files)

\* The only changed file was used for a path that matches it in no way.
C16_Witness ==
  /\ output.fn = "resolvePathForInlineComment"
  /\ Len(input.files) = 1
  /\ input.path.segs # <<>>
  /\ input.path.segs[Len(input.path.segs)]
       # input.files[1].path.segs[Len(input.files[1].path.segs)]
  /\ output.path = input.files[1].path

\* ------------------------------------------------- claims: the AI provider
\* C17: when the first request sent to the primary model is answered with
\* the rate-limit status, generateReview sends that model no second request
\* and settles with no result.
C17_FirstRateLimitEndsPrimary ==
  (ai.pc # "idle" /\ ai.first = "rate_limited") =>
    /\ ai.sent["primary"] = 1
    /\ ai.pc = "settled" => ai.result = "null"

\* C18: a request reaches the fallback model only when a fallback model
\* other than the primary is configured and no request to the primary model
\* was answered with a response or with the rate-limit status.
C18_FallbackOnlyAfterTransportFailures ==
  (ai.pc # "idle" /\ ai.sent["fallback"] > 0) =>
    /\ fallbackModel # Null
    /\ ~ai.primaryResponded
    /\ ~ai.primaryLimited

\* C19: generateReview never throws: whatever the requests are answered
\* with, its caller receives a review or no result.
C19_GenerateReviewNeverThrows ==
  output.fn = "generateReview" => output.result \in {"review", "null"}

\* The entries of a parsed response with a path, a body and a line above 0.
IsValidEntry(item) ==
  /\ item.kind = "object"
  /\ Trim(item.path) \notin {"", "<undefined>", "<number>"}
  /\ Trim(item.body) \notin {"", "<undefined>", "<number>"}
  /\ item.line > 0

RECURSIVE ValidEntriesFrom(_, _)
ValidEntriesFrom(items, i) ==
  IF i > Len(items) THEN <<>>
  ELSE LET rest == ValidEntriesFrom(items, i + 1)
       IN IF IsValidEntry(items[i])
            THEN <<InlineSuggestion(items[i])>> \o rest
            ELSE rest

\* C20: a parsed response always becomes a review, and the review's
\* inlineSuggestions are the valid entries of the parsed inline_suggestions
\* in their order; an invalid entry is left out.
C20_InvalidEntriesAreDropped ==
  (output.fn = "generateReview" /\ output.result # "null") =>
    /\ output.result = "review"
    /\ output.inlineSuggestions =
         ValidEntriesFrom(output.parsed.inline_suggestions, 1)

\* -------------------------------------------- claims: the resolved comments
\* The suggestions of the call under evaluation that resolve to the path and
\* line of a comment.
ResolvingTo(comment) ==
  LET indexes == buildFileLineIndexes(input.files)
  IN {s \in 1..Len(input.suggestions) :
        LET item == input.suggestions[s]
            file == resolvePathForInlineComment(item.path, indexes)
        IN /\ item.body # ""
           /\ file # 0
           /\ indexes[file].path = comment.path
           /\ findClosestReviewLine(item.line,
                rightLinesByPath(indexes, indexes[file].path)) = comment.line}

\* C21: when several suggestions resolve to the same path and line, the
\* review createInlineReview creates carries one comment for the pair, and its
\* body is the body of the first of those suggestions.
C21_FirstSuggestionKeptPerLine ==
  \A i \in ReviewRequests :
    LET valid == log[i].args.valid
    IN /\ \A c, d \in 1..Len(valid) :
            (valid[c].path = valid[d].path /\ valid[c].line = valid[d].line)
              => c = d
       /\ \A c \in 1..Len(valid) :
            LET from == ResolvingTo(valid[c])
            IN /\ from # {}
               /\ valid[c].body =
                    input.suggestions[CHOOSE s \in from : \A u \in from : s <= u].body

\* --------------------------------------------- claims: the file-level comment
\* createInlineReview calls of a job that were given suggestions.
SuggestingCalls ==
  {i \in 1..Len(log) :
     log[i].op = "createInlineReview" /\ log[i].args.suggestions # <<>>}

\* The job of the call at i has ended.
JobEndedAfter(i) ==
  \E e \in (i + 1)..Len(log) : log[e].op = "processJob" /\ log[e].w = log[i].w

\* The file-review upserts of the job whose createInlineReview call is at i.
FileLevelUpsertsAfter(i) ==
  {k \in (i + 1)..Len(log) :
     /\ log[k].w = log[i].w
     /\ log[k].op = "upsertIssueComment"
     /\ log[k].args.marker = FILE_REVIEW_MARKER
     /\ \A e \in (i + 1)..k : log[e].w = log[i].w => log[e].op # "processJob"}

\* The body lists every suggested path once, with the first five of the
\* path's suggestions, each with its suggested line.
ListsFivePerPath(bodyLines, suggestions) ==
  /\ {bodyLines[g].path : g \in 1..Len(bodyLines)}
       = {suggestions[s].path : s \in 1..Len(suggestions)}
  /\ \A g, h \in 1..Len(bodyLines) : bodyLines[g].path = bodyLines[h].path => g = h
  /\ \A g \in 1..Len(bodyLines) :
       LET of == SortedSeq({s \in 1..Len(suggestions) :
                              suggestions[s].path = bodyLines[g].path})
           items == bodyLines[g].items
       IN  /\ Len(items) = Min(Len(of), 5)
           /\ \A k \in 1..Len(items) :
                /\ items[k].line = suggestions[of[k]].line
                /\ items[k].body = suggestions[of[k]].body

\* C22: in a pull_request job whose AI result has suggestions of which none
\* resolves, createInlineReview creates no review and the job upserts one
\* file-review comment that lists at most five suggestions per suggested path
\* with their suggested lines; when a suggestion resolves, the job makes no
\* file-review upsert.
C22_FileLevelCommentWhenNoneResolves ==
  \A i \in SuggestingCalls :
    IF log[i].args.valid = <<>>
    THEN /\ log[i].result = "no_valid_comments"
         /\ log[i].args.writes = <<>>
         /\ Cardinality(FileLevelUpsertsAfter(i)) <= 1
         /\ JobEndedAfter(i) => Cardinality(FileLevelUpsertsAfter(i)) = 1
         /\ \A k \in FileLevelUpsertsAfter(i) :
              ListsFivePerPath(log[k].args.bodyLines, log[i].args.suggestions)
    ELSE FileLevelUpsertsAfter(i) = {}

\* A job whose six suggestions for one path did not resolve has ended after
\* its file-review upsert, which lists five of them.
C22_Witness ==
  \E i \in SuggestingCalls :
    /\ log[i].args.valid = <<>>
    /\ JobEndedAfter(i)
    /\ \E k \in FileLevelUpsertsAfter(i) :
         \E g \in 1..Len(log[k].args.bodyLines) :
           /\ Len(log[k].args.bodyLines[g].items) = 5
           /\ Cardinality({s \in 1..Len(log[i].args.suggestions) :
                 log[i].args.suggestions[s].path = log[k].args.bodyLines[g].path}) = 6

\* ------------------------------------------------ claims: committed contents
\* The number of newline characters a content ends with.
RECURSIVE TrailingNewlines(_)
TrailingNewlines(content) ==
  IF EndsWithNewline(content)
    THEN 1 + TrailingNewlines(SubSeq(content, 1, Len(content) - 1))
    ELSE 0

\* C23: every content a commit writes to the branch ends with exactly one
\* newline character.
C23_WrittenContentEndsWithOneNewline ==
  output.fn \in {"commitFilesToPrBranch", "createOrUpdateSourceFile"} =>
    TrailingNewlines(output.content) = 1

\* C24: every comment of a review createInlineReview creates is on a line the
\* pull request added (a "+" line of the file's patch), never on a context
\* line.
C24_CommentsOnAddedLines ==
  \A i \in ReviewRequests :
    \A c \in 1..Len(log[i].args.valid) :
      \E f \in 1..Len(input.files) :
        /\ input.files[f].path = log[i].args.valid[c].path
        /\ log[i].args.valid[c].line
             \in Range(parseAddedLinesFromPatch(input.files[f].patch))

\* ------------------------------------------------ claims: the job's outcomes
\* The log entries of the run that ended at the processJob entry e.
RunOf(e) ==
  {k \in 1..(e - 1) :
     /\ log[k].w = log[e].w
     /\ \A x \in k..(e - 1) : log[x].w = log[e].w => log[x].op # "processJob"}

\* The upserts of a run under a marker.
UpsertsOf(e, marker) ==
  {k \in RunOf(e) : log[k].op = "upsertIssueComment" /\ log[k].args.marker = marker}

\* C25: a pull_request job whose AI pipeline returned no result has upserted
\* the ai-review comment once, with the failure notice, has created no review
\* and no file-review comment, and has completed: its message is not reported.
C25_NoAiResultIsReportedInAComment ==
  \A e \in JobRuns :
    (log[e].job.type = "pull_request" /\ log[e].job.aiReview = "null") =>
      /\ log[e].result = "completed"
      /\ Cardinality(UpsertsOf(e, REVIEW_COMMENT_MARKER)) = 1
      /\ \A k \in UpsertsOf(e, REVIEW_COMMENT_MARKER) :
           /\ log[k].args.body = "ai-failed"
           /\ log[k].result \in {"created", "updated"}
      /\ UpsertsOf(e, FILE_REVIEW_MARKER) = {}
      /\ \A k \in RunOf(e) : log[k].op # "createInlineReview"
      /\ (\A x \in JobRuns : log[x].job.messageId = log[e].job.messageId
                               => log[x].result = "completed")
           => log[e].job.messageId \notin failures

\* A job without an AI result has completed with the failure notice in the
\* ai-review comment of the pull request.
C25_Witness ==
  \E e \in JobRuns :
    /\ log[e].job.type = "pull_request"
    /\ log[e].job.aiReview = "null"
    /\ log[e].result = "completed"
    /\ log[e].job.messageId \notin failures
    /\ \E i \in 1..Len(comments) :
         comments[i].bot /\ comments[i].body = Body(REVIEW_COMMENT_MARKER, "ai-failed")

\* -------------------------------------------- claims: the installation clients
\* C26: every job ends as it would with an empty cache and authentication
\* performed when the job starts: completed when authentication succeeds,
\* reported failed when it does not.
C26_CacheDoesNotChangeOutcomes ==
  \A i \in 1..Len(log) :
    log[i].op = "processJob" =>
      log[i].result = IF log[i].args.authNow = "ok" THEN "completed" ELSE "failed"

\* ------------------------------------------------- claims: the ledger's frame
\* C27: when upsertIssueComment has returned on an issue where at most one
\* bot-authored comment carried the marker, exactly one carries it, however
\* many comments the issue has.
C27_UpsertLeavesExactlyOne ==
  (Idle /\ Len(log) >= 1) =>
    LET last == log[Len(log)]
    IN  (/\ last.op = "upsertIssueComment"
         /\ last.result \in {"created", "updated"}
         /\ last.args.before <= 1)
          => Cardinality(BotComments(last.args.marker)) = 1

\* The comments of the pull request that the step changes or deletes.
Touched ==
  {i \in 1..Len(comments) :
     \A j \in 1..Len(comments') : comments'[j] # comments[i]}

\* The marker under which the step's worker updates or deletes a comment.
ActingMarkers ==
  {loc[w].marker : w \in {v \in pool : pc[v] = "upsert_update"}}
    \cup {TEMPLATE_COMMENT_MARKER : w \in {v \in pool : pc[v] = "remove_delete"}}

\* C28: upsertIssueComment and removeTemplateCheckComment for marker M change
\* or delete only a bot-authored comment whose body starts with M; comments
\* under another marker, also one that quotes M after its first line, and
\* comments by other authors stay as they are.
C28_OnlyTheMarkersCommentIsTouched ==
  [][\A i \in Touched :
       comments[i].bot /\ comments[i].body.first \in ActingMarkers]_vars

\* C29: when a pull_request job has run on a pull request whose description
\* holds the required fields, no template-check comment is left on it; when
\* a field is missing the job has upserted the template-check comment and
\* has made no commit, no AI request and no review.
C29_TemplateNoticeFollowsTheDescription ==
  \A e \in JobRuns :
    (log[e].job.type = "pull_request" /\ Idle) =>
      /\ log[e].job.body = "complete" => BotComments(TEMPLATE_COMMENT_MARKER) = {}
      /\ log[e].job.body = "incomplete" =>
           /\ Cardinality(UpsertsOf(e, TEMPLATE_COMMENT_MARKER)) = 1
           /\ \A k \in RunOf(e) :
                log[k].op \notin {"commitFilesToPrBranch", "createInlineReview"}
           /\ UpsertsOf(e, REVIEW_COMMENT_MARKER) = {}
           /\ log[e].job.aiReview = "none"

\* The calls of commitFilesToPrBranch that created a commit.
CreatedCommits ==
  {i \in CommitCalls : log[i].args.newCommit # 0}

PlannedPaths(plan) == {plan[k].path : k \in 1..Len(plan)}

\* C30: a commit created by commitFilesToPrBranch has one parent, the tip
\* that getRef read, and its tree is that tip's tree with the planned paths
\* overlaid: a planned path has the planned content, every other path the
\* content it has at the tip.
C30_CommitOverlaysThePlanOnTheTip ==
  \A i \in CreatedCommits :
    LET call == log[i].args
        commit == commits[call.newCommit]
    IN  /\ commit.parent = call.base
        /\ call.base \in call.seenTips
        /\ \A k \in 1..Len(call.plan) :
             commit.tree[call.plan[k].path] = call.plan[k].content
        /\ \A p \in Paths \ PlannedPaths(call.plan) :
             commit.tree[p] = commits[call.base].tree[p]

\* A commit of one planned file has been made on a tip that holds another.
C30_Witness ==
  \E i \in CreatedCommits :
    /\ log[i].result = "true"
    /\ \E p \in Paths \ PlannedPaths(log[i].args.plan) :
         /\ commits[log[i].args.base].tree[p] # Absent
         /\ commits[log[i].args.newCommit].tree[p] # Absent

\* ------------------------------------------------- claims: hunk numbering

\* The header of the hunk that line i of the patch lies in, 0 if none.
HunkOf(patch, i) ==
  LET before == {h \in 1..(i - 1) : patch[h].kind \in {"@@", "@@bad"}}
      last == IF before = {} THEN 0 ELSE CHOOSE h \in before : \A g \in before : g <= h
  IN  IF last # 0 /\ patch[last].kind = "@@" THEN last ELSE 0

\* Added lines start with "+" ("+++" is an added line that starts with "++").
IsAddedLine(line) == line.kind \in {"+", "+++"}

\* c plus the count of the added and context lines before line i in its hunk.
NumberAt(patch, i) ==
  patch[HunkOf(patch, i)].start
    + Cardinality({k \in (HunkOf(patch, i) + 1)..(i - 1) :
                     IsAddedLine(patch[k]) \/ patch[k].kind = " "})

NumbersOf(patch, kinds) ==
  {NumberAt(patch, i) :
     i \in {k \in 1..Len(patch) : HunkOf(patch, k) # 0 /\ patch[k].kind \in kinds}}

\* C31: in a hunk "@@ -a,b +c,d @@" an added line has the number c plus the
\* count of added and context lines before it in the hunk, a removed line
\* changes no number, lines before the first header are ignored, and
\* addedLines and rightLines are these numbers in ascending order, each once.
C31_HunkNumbering ==
  (output.fn = "parsePatch" /\ IsUnifiedDiff(input.patch)) =>
    /\ output.addedLines = SortedSeq(NumbersOf(input.patch, {"+", "+++"}))
    /\ output.rightLines = SortedSeq(NumbersOf(input.patch, {"+", "+++", " "}))

\* ------------------------------------------- claims: patches without a hunk

\* No line of the patch is a hunk header with a "+c" start.
HasNoHunkHeader(patch) == \A k \in 1..Len(patch) : patch[k].kind # "@@"

InlineReviewCalls == {i \in 1..Len(log) : log[i].op = "createInlineReview"}

\* The files of a call whose patch has no parsable hunk header.
HeaderlessFiles(i) ==
  {f \in 1..Len(log[i].args.files) : HasNoHunkHeader(log[i].args.files[f].patch)}

C33_RateLimitEndsTheCall ==
  (ai.pc # "idle" /\ ai.endedLimited) =>
    /\ ~ai.sentAfterLimited
    /\ ai.pc = "settled"
    /\ ai.result = "null"

\* C34: for each response to a prompt variant that cannot be parsed one
\* repair request is issued, to the model that gave the response; a repair
\* request is issued for nothing else, and never for a repair response.
C34_OneRepairPerUnparsedResponse ==
  ai.pc # "idle" => (ai.repairs = ai.unparsed /\ ~ai.repairMisplaced)

\* Two responses could not be parsed, and a repair has failed.
C34_Witness ==
  ai.pc = "settled" /\ ai.unparsed = 2 /\ ai.repairs = 2 /\ ai.repairFailed

\* C35: when a response cannot be parsed and the repair request for it fails
\* as well (no response, or one that cannot be parsed), generateReview sends
\* no further request and settles with no result.
C35_FailedRepairEndsTheCall ==
  (ai.pc # "idle" /\ ai.repairFailed) =>
    /\ ~ai.sentAfterRepairFailed
    /\ ai.pc = "settled"
    /\ ai.result = "null"

\* C36: when the answer_code of the parsed or repaired response is the marker
\* of unavailable code, one answer-code-only request is issued, to the model
\* that gave the response; the answer_code it returns replaces the marker,
\* and when it returns none the review is returned all the same, with the
\* suggestions of the response.
C36_AnswerCodeRecovery ==
  (ai.pc = "settled" /\ ai.sentinel) =>
    /\ ai.answers = 1
    /\ ~ai.answerMisplaced
    /\ ai.result = "review"
    /\ ai.parsed.answer_code =
         (IF ai.recovered = Null THEN "unavailable" ELSE ai.recovered)
    /\ ai.inlineSuggestions = ValidEntriesFrom(ai.parsed.inline_suggestions, 1)

\* The prompt variants sent to a model as main requests.
MainsTo(model) == {p \in ai.mains : p[1] = model}

\* C37: generateReview sends a bounded number of requests whatever they are
\* answered with: to each model at most one main request per prompt variant,
\* of which there are at most two; to the fallback model at most maxRetries
\* main requests; each request is sent again after a rate-limit status at
\* most rateLimitRetries times; no main request follows a response that was
\* parsed or repaired.
C37_BoundedRequests ==
  ai.pc # "idle" =>
    /\ ~ai.mainRepeated
    /\ ai.mains \subseteq ({"primary", "fallback"} \X (1..input.prompts))
    /\ input.prompts <= 2
    /\ Cardinality(MainsTo("fallback")) <= maxRetries
    /\ ai.attempt <= rateLimitRetries
    /\ ~ai.mainAfterSuccess
    /\ \A model \in {"primary", "fallback"} :
         ai.sent[model] <= (2 * input.prompts + 1) * (1 + rateLimitRetries)

\* Both prompt variants went to both models, the last request was repeated as
\* often as allowed, and generateReview has settled.
C37_Witness ==
  /\ ai.pc = "settled"
  /\ Cardinality(ai.mains) = 4
  /\ ai.attempt = rateLimitRetries

\* ------------------------------------------- claims: the job's error notice
\* The runs during which a step after the summary upsert threw.
ThrewAfterSummary(e) ==
  \E s \in UpsertsOf(e, REVIEW_COMMENT_MARKER) :
    /\ log[s].args.body = "summary"
    /\ log[s].result \in {"created", "updated"}
    /\ \E k \in RunOf(e) :
         /\ k > s
         /\ log[k].result = "threw"
         /\ \/ log[k].op = "createInlineReview"
            \/ log[k].op = "upsertIssueComment"
                 /\ log[k].args.marker = FILE_REVIEW_MARKER

\* The bot's comments under the ai-review marker with the given text.
AiReviewComments(text) ==
  {i \in BotComments(REVIEW_COMMENT_MARKER) : comments[i].body.rest = text}

\* C38: when a step after the summary upsert throws, the catch block writes
\* the error notice over the ai-review comment: the summary of the job is no
\* longer on the pull request, the notice is, and the job has completed
\* without its message being reported.
C38_ErrorNoticeReplacesSummary ==
  \A e \in JobRuns :
    (e = Len(log) /\ Idle /\ ThrewAfterSummary(e)) =>
      /\ AiReviewComments("summary") = {}
      /\ AiReviewComments("error") # {}
      /\ log[e].result = "completed"
      /\ (\A x \in JobRuns : log[x].job.messageId = log[e].job.messageId
                               => log[x].result = "completed")
           => log[e].job.messageId \notin failures

\* -------------------------------------------------- claims: the SQS handler
\* A body that is no job of version 1 with type, installation, owner and repo.
IsInvalidPayload(body) ==
  \/ body.json # "object"
  \/ body.v # 1
  \/ body.type = ""
  \/ body.installationId = 0
  \/ body.owner = ""
  \/ body.repo = ""

\* C39: the handler takes the records of the event in their order, one at a
\* time, goes on after a record that failed, and returns as
\* batchItemFailures exactly the messageIds of the records whose parsing or
\* processing threw: no record that was processed without a throw is listed.
C39_FailuresAreTheRecordsThatThrew ==
  /\ \A i \in 1..Len(log) :
       log[i].op = "record" => log[i].args = input.Records[i]
  /\ output.fn = "handler" =>
       /\ Len(log) = Len(input.Records)
       /\ output.batchItemFailures =
            {log[i].args.messageId :
               i \in {k \in 1..Len(log) : log[k].result # "returned"}}
       /\ \A i \in 1..Len(input.Records) :
            LET body == input.Records[i].body
            IN  /\ (IsInvalidPayload(body) \/ body.type = "unsupported")
                     => input.Records[i].messageId \in output.batchItemFailures
                /\ log[i].result = "parse_threw" <=> IsInvalidPayload(body)

\* The first record failed, the second was processed, the event is answered.
C39_Witness ==
  /\ output.fn = "handler"
  /\ Len(log) = 2
  /\ log[1].result \in {"parse_threw", "threw"}
  /\ log[2].result = "returned"
  /\ output.batchItemFailures = {1}

\* ---------------------------------------------- claims: the webhook ingress
Deliveries(sender) ==
  {i \in 1..Len(log) : log[i].op = "delivery" /\ log[i].args.sender = sender}

JobsEnqueued ==
  {i \in 1..Len(log) : log[i].op = "delivery" /\ log[i].result = "enqueued"}

\* Nothing is to be delivered, the queue is empty.
Quiescent == events = <<>> /\ queue = <<>>

\* No delivery sent by a Bot has enqueued a job, and the jobs are no more
\* than the deliveries the author caused.
NoJobFromBot ==
  /\ \A i \in Deliveries("Bot") : log[i].result = "ignored"
  /\ \A k \in 1..Len(queue) : queue[k].senderType # "Bot"
  /\ Cardinality(JobsEnqueued) <= 2 * UserActs
  /\ started <= Cardinality(JobsEnqueued)

====
